---- MODULE Spec2Model ----
(***************************************************************************)
(* Model of the platform migrator of                                       *)
(* internal/command/migrate_to_v2/migrate_to_v2.go: v2PlatformMigrator's   *)
(* Migrate, its deferred recovery and rollback, and the remote calls they  *)
(* issue.  One run of Migrate is a sequential process whose position is    *)
(* pc; the signal listener goroutine runs beside it and only stores the    *)
(* abort flag.  Every remote call may succeed or fail.                     *)
(***************************************************************************)
EXTENDS Integers, Sequences, FiniteSets, TLC

\* Largest legacy fleet (number of allocations returned by GetAllocations).
MaxAllocs == 3

\* Largest legacy fleet for which rollback is invoked a second time.
MaxRetryAllocs == 2

\* Largest legacy fleet for which the background refresh's calls are followed,
\* and largest number of times the refresh wakes up.
MaxRenewAllocs == 1
MaxRenewRounds == 1

\* Largest legacy fleet for which both values of canAvoidDowntime are followed.
MaxBothAllocs == 2

\* Largest legacy fleet, at construction and later, when the fleet changes
\* under the migrator.
MaxDriftAllocs == 1

\* Largest legacy fleet the constructor is given by GetAllocations.
MaxNewAllocs == 2

\* Largest number of volumes attached to one allocation.
MaxVolumes == 1

\* Min of the backoff of waitForAllocsZero, in seconds.
BackoffMin == 2

\* Factor of the backoff of waitForAllocsZero, 1.2, as a fraction.
BackoffFactorNum == 6
BackoffFactorDen == 5

\* Max of the backoff of waitForAllocsZero (5 minutes in the code) and the
\* hard timeout (1 hour in the code), scaled down to a few seconds.
BackoffMax == 4
HardTimeout == 12

\* Longest time GetAllocations takes to answer, in seconds.
MaxPollLatency == 1

\* leaseTimeout of the migrator, in seconds.
LeaseTimeout == 13

\* Largest number of machines whose leases are renewed.
MaxLeases == 2

\* Longest time between the first lease's acquisition and the start of the
\* background renewal, in seconds.
MaxStartDelay == 2

\* Longest foreground window over which the renewal runs, in seconds.
LeaseWindow == 16

\* Regions an allocation may run in.
Regions == {"ams", "fra"}

\* Process groups (task names) an allocation may belong to.
Groups == {"web", "worker"}

\* Values appFull.PlatformVersion may have once the constructor has accepted
\* the application (it rejects "machines").
InitialPlatforms == {"nomad", "detached"}

VARIABLES
    oldAllocs,              \* m.oldAllocs: snapshot of the legacy allocations
    oldVmCounts,            \* m.oldVmCounts: allocations per process group
    newMachinesInput,       \* m.newMachinesInput: the launch inputs (the plan)
    canAvoidDowntime,       \* m.canAvoidDowntime
    appFullPlatformVersion, \* m.appFull.PlatformVersion
    appLock,                \* m.appLock: lock token, "" before the lock
    releaseId,              \* m.releaseId
    recovery,               \* m.recovery (recoveryState)
    newMachines,            \* m.newMachines: ids held by the machine set
    leases,                 \* ids of the machines whose lease the set holds
    refreshing,             \* background lease refresh is running
    leaseDefer,             \* the deferred ReleaseLeases has been registered
    pc,                     \* position of Migrate
    err,                    \* Migrate's named result: "nil", "error", "aborted"
    aborted,                \* the atomic abort flag
    newlyCreatedMachines,   \* createMachines' local slice
    idx,                    \* loop index of createMachines / of rollback's loop
    rbErr,                  \* rollback's result: "nil" or "error"
    calls,                  \* every remote call issued so far, in order
    cpLocked,               \* control plane: this migrator holds the app lock
    cpPlatform,             \* control plane: the platform marker
    cpMachines,             \* control plane: ids of the machines that exist
    failedAt,               \* the forward step that returned an error, or "none"
    abortSetAt,             \* pc at which the signal stored the flag, or "none"
    abortSeenAt,            \* checkpoint that observed the flag, or "none"
    abortSeenIdx,           \* Len(calls) when the flag was observed
    rollbackRuns,           \* number of invocations of rollback
    ctor,                   \* runMigrateToV2 / NewV2PlatformMigrator: position,
                            \* the inputs read so far and the result
    wait,                   \* waitForAllocsZero: position, clock and timers
    renewal,                \* the leases' background renewal: position, clock,
                            \* each lease's last renewal
    liveFleet,              \* the legacy fleet on the control plane, once it
                            \* differs from the snapshot the constructor took
    migrators,              \* two migrators run against one application: each
                            \* one's position and recovery, the control plane's
                            \* lock holder and marker, the calls in order
    machineWait             \* one call of machine.WaitForStartOrStop: position,
                            \* clock, context, the remote waits issued

vars == <<oldAllocs, oldVmCounts, newMachinesInput, canAvoidDowntime,
          appFullPlatformVersion, appLock, releaseId, recovery, newMachines,
          leases, refreshing, leaseDefer, pc, err, aborted,
          newlyCreatedMachines, idx, rbErr, calls, cpLocked, cpPlatform,
          cpMachines, failedAt, abortSetAt, abortSeenAt, abortSeenIdx,
          rollbackRuns, ctor, wait, renewal, liveFleet, migrators,
          machineWait>>

\* What no step of Migrate or rollback assigns: the plan, and the state of the
\* constructor and of the allocation poll, which are explored on their own.
planVars == <<oldAllocs, oldVmCounts, newMachinesInput, canAvoidDowntime,
              appFullPlatformVersion, ctor, wait, renewal, liveFleet,
              migrators, machineWait>>

histVars == <<failedAt, abortSetAt, abortSeenAt, abortSeenIdx, rollbackRuns>>

-----------------------------------------------------------------------------
(* Helpers *)

\* All sequences over S of length at most n.
SeqsUpTo(S, n) == UNION {[1..k -> S] : k \in 0..n}

\* One remote call: the operation, who issued it ("migrate": a forward step,
\* "defer": the deferred ReleaseLeases, "rollback"), the machine it is about
\* (0: none), the platform value or other text it carries, the lock token it
\* carries, the group counts it carries, and whether it succeeded.
Call(op, by, id, val, lock, counts, ok) ==
    [op |-> op, by |-> by, id |-> id, val |-> val, lock |-> lock,
     counts |-> counts, ok |-> ok]

\* resolveProcessGroups: the number of allocations of each process group.
ResolveProcessGroups(allocs) ==
    [g \in {allocs[i].task : i \in DOMAIN allocs} |->
        Cardinality({i \in DOMAIN allocs : allocs[i].task = g})]

\* resolveMachineFromAlloc: the launch input derived from one allocation.  The
\* metadata is defaultMachineMetadata() as it is when the plan is built, with
\* the process group overwritten by the allocation's task name.
ResolveMachineFromAlloc_DefaultGroup(alloc, relId) ==
    [group |-> "app", region |-> alloc.region, releaseId |-> relId,
     mount |-> alloc.volumes = 1]

ResolveMachineFromAlloc(alloc, relId) ==
    [group |-> alloc.task, region |-> alloc.region, releaseId |-> relId,
     mount |-> alloc.volumes = 1]

\* resolveMachinesFromAllocs: one launch input per allocation, in order.
ResolveMachinesFromAllocs(allocs, relId) ==
    [i \in DOMAIN allocs |-> ResolveMachineFromAlloc(allocs[i], relId)]

\* The machine the control plane returns for the i-th launch.
LaunchedMachine(i) == [id |-> i, group |-> newMachinesInput[i].group]

\* GroupCounts of scaleNomadToZero: every group of oldVmCounts with count 0.
ZeroGroupCounts_Keep(counts) == {<<g, counts[g]>> : g \in DOMAIN counts}

ZeroGroupCounts(counts) == {<<g, 0>> : g \in DOMAIN counts}

\* GroupCounts of a restore that counts the fleet as it is now.
RestoreGroupCounts_Live(counts) ==
    IF liveFleet.changed
    THEN {<<g, ResolveProcessGroups(liveFleet.allocs)[g]>> :
             g \in DOMAIN ResolveProcessGroups(liveFleet.allocs)}
    ELSE {<<g, counts[g]>> : g \in DOMAIN counts}

\* GroupCounts of rollback's restore: every group with its old count.
RestoreGroupCounts(counts) == {<<g, counts[g]>> : g \in DOMAIN counts}

-----------------------------------------------------------------------------
(* The state after NewV2PlatformMigrator has returned a migrator *)

\* The constructor's state once runMigrateToV2 has invoked Migrate.
CtorDone(platform) ==
    [pc |-> "done", platform |-> platform, autoscale |-> FALSE,
     mounts |-> FALSE, procs |-> Groups, fetched |-> TRUE,
     result |-> "migrator", cause |-> "", confirm |-> "yes"]

\* The two concurrent runs of the command.
Migrators == {1, 2}

\* Two migrators before either is constructed, on an unlocked 'nomad' app.
MigratorsIdle ==
    [pc          |-> [p \in Migrators |-> "new"],
     appLocked   |-> [p \in Migrators |-> FALSE],
     platformVersion |-> [p \in Migrators |-> "nomad"],
     machinesCreated |-> [p \in Migrators |-> FALSE],
     holder      |-> 0,
     platform    |-> "nomad",
     log         |-> <<>>]

\* WaitForStartOrStop before it is called.
MachineWaitIdle ==
    [pc |-> "idle", action |-> "", now |-> 0, deadline |-> 0, attempt |-> 0,
     canceled |-> FALSE, result |-> "none", log |-> <<>>]

\* The legacy fleet while it is as the constructor saw it.
FleetAsSnapshot == [changed |-> FALSE, allocs |-> <<>>, beforeLaunch |-> FALSE]

\* The leases' renewal before any lease is acquired.
RenewalIdle ==
    [pc |-> "idle", now |-> 0, start |-> 0, due |-> 0, last |-> <<>>,
     count |-> <<>>, failed |-> <<>>]

\* The allocation poll when it is not running.
WaitIdle ==
    [pc |-> "idle", now |-> 0, deadline |-> 0, due |-> 0, attempt |-> 0,
     log |-> <<>>, result |-> "none"]

\* The state in which Migrate is invoked, for a value of canAvoidDowntime.
\* The migrator as NewV2PlatformMigrator returns it, and the control plane
\* it was built from.
Constructed(avoidDowntime) ==
    /\ oldAllocs \in SeqsUpTo([task : Groups, region : {"ams"}, volumes : {0}],
                              MaxAllocs)
    /\ oldVmCounts = ResolveProcessGroups(oldAllocs)
    /\ newMachinesInput = ResolveMachinesFromAllocs(oldAllocs, "")
    /\ canAvoidDowntime = avoidDowntime
    /\ appFullPlatformVersion \in InitialPlatforms
    /\ appLock = ""
    /\ releaseId = ""
    /\ recovery = [machinesCreated |-> <<>>, appLocked |-> FALSE,
                   scaledToZero |-> FALSE,
                   platformVersion |-> appFullPlatformVersion,
                   onlyPromptToConfigSave |-> FALSE]
    /\ newMachines = <<>>
    /\ leases = {}
    /\ refreshing = FALSE
    /\ leaseDefer = FALSE
    /\ err = "nil"
    /\ aborted = FALSE
    /\ newlyCreatedMachines = <<>>
    /\ idx = 1
    /\ rbErr = "nil"
    /\ calls = <<>>
    /\ cpLocked = FALSE
    /\ cpPlatform = appFullPlatformVersion
    /\ cpMachines = {}
    /\ failedAt = "none"
    /\ abortSetAt = "none"
    /\ abortSeenAt = "none"
    /\ abortSeenIdx = 0
    /\ rollbackRuns = 0
    /\ wait = WaitIdle
    /\ renewal = RenewalIdle
    /\ liveFleet = FleetAsSnapshot
    /\ migrators = MigratorsIdle
    /\ machineWait = MachineWaitIdle

\* Migrate has just been invoked on the migrator.
InitWith(avoidDowntime) ==
    /\ Constructed(avoidDowntime)
    /\ pc = "lock"
    /\ ctor = CtorDone(appFullPlatformVersion)

\* The constructor sets canAvoidDowntime to true.
Init == InitWith(TRUE)

-----------------------------------------------------------------------------
(* Control flow of Migrate *)

\* The checkpoints `if aborted.Load() { return abortedErr }`, named after the
\* step each one follows.
Checkpoints == {"cp_lock", "cp_scaleEarly", "cp_detach", "cp_release",
                "cp_create", "cp_acquire", "cp_unlock", "cp_deploy",
                "cp_scaleLate"}

\* The forward steps of Migrate.
ForwardSteps == {"lock", "scaleEarly", "detach", "release", "create",
                 "acquire", "unlock", "releaseLeases", "deploy", "scaleLate",
                 "switch", "write"}

\* The step that follows each checkpoint when the flag is not set.
StepAfter(cp) ==
    CASE cp = "cp_lock"       -> "scaleEarly"
      [] cp = "cp_scaleEarly" -> "detach"
      [] cp = "cp_detach"     -> "release"
      [] cp = "cp_release"    -> "create"
      [] cp = "cp_create"     -> "acquire"
      [] cp = "cp_acquire"    -> "unlock"
      [] cp = "cp_unlock"     -> "releaseLeases"
      [] cp = "cp_deploy"     -> "scaleLate"
      [] cp = "cp_scaleLate"  -> "switch"

\* A return that runs the deferred recovery only.
Return_RecoveryOnly(e, registered) ==
    /\ err' = e
    /\ pc' = "defer_recovery"

\* A return statement of Migrate: the result is set and the deferred functions
\* run in reverse order of registration, the deferred ReleaseLeases (if it was
\* registered) before the deferred recovery.
Return(e, registered) ==
    /\ err' = e
    /\ pc' = IF registered THEN "defer_release" ELSE "defer_recovery"

\* What a checkpoint does with the value it loads from the flag.
CheckpointAborts_Ignore(cp, flag) == FALSE

CheckpointAborts(cp, flag) == flag

\* The signal listener goroutine: stores the flag, touches nothing else.
Signal ==
    /\ ~aborted
    /\ pc # "returned"
    /\ aborted' = TRUE
    /\ abortSetAt' = pc
    /\ UNCHANGED <<planVars, appLock, releaseId, recovery, newMachines, leases,
                   refreshing, leaseDefer, pc, err, newlyCreatedMachines, idx,
                   rbErr, calls, cpLocked, cpPlatform, cpMachines, failedAt,
                   abortSeenAt, abortSeenIdx, rollbackRuns>>

Checkpoint(cp) ==
    /\ pc = cp
    /\ abortSeenAt' = IF aborted THEN cp ELSE abortSeenAt
    /\ abortSeenIdx' = IF aborted THEN Len(calls) ELSE abortSeenIdx
    /\ IF CheckpointAborts(cp, aborted)
          THEN Return("aborted", leaseDefer)
          ELSE pc' = StepAfter(cp) /\ err' = err
    /\ UNCHANGED <<planVars, appLock, releaseId, recovery, newMachines, leases,
                   refreshing, leaseDefer, aborted, newlyCreatedMachines, idx,
                   rbErr, calls, cpLocked, cpPlatform, cpMachines, failedAt,
                   abortSetAt, rollbackRuns>>

-----------------------------------------------------------------------------
(* Forward steps *)

\* lockAppForMigration, preceded by Migrate's first assignment.
StepLock ==
    /\ pc = "lock"
    /\ \E ok \in BOOLEAN :
        /\ calls' = Append(calls, Call("lockApp", "migrate", 0, "", "", {}, ok))
        /\ IF ok
              THEN /\ appLock' = "lock1"
                   /\ recovery' = [recovery EXCEPT
                                     !.platformVersion = appFullPlatformVersion,
                                     !.appLocked = TRUE]
                   /\ cpLocked' = TRUE
                   /\ pc' = "cp_lock"
                   /\ err' = err
                   /\ failedAt' = failedAt
              ELSE /\ appLock' = appLock
                   /\ recovery' = [recovery EXCEPT
                                     !.platformVersion = appFullPlatformVersion]
                   /\ cpLocked' = cpLocked
                   /\ Return("error", leaseDefer)
                   /\ failedAt' = "lock"
    /\ UNCHANGED <<planVars, releaseId, newMachines, leases, refreshing,
                   leaseDefer, aborted, newlyCreatedMachines, idx, rbErr,
                   cpPlatform, cpMachines, abortSetAt, abortSeenAt,
                   abortSeenIdx, rollbackRuns>>

\* scaleNomadToZero, called by the step `step`, which continues at `next`.
\* The count request is skipped when there is no process group; the wait for
\* the allocations to terminate follows; scaledToZero is set after the wait.
ScaleNomadToZero(step, next) ==
    \E r \in {"ok", "setFailed", "waitError", "waitTimeout"} :
        /\ r = "setFailed" => DOMAIN oldVmCounts # {}
        /\ LET setCall == IF DOMAIN oldVmCounts # {}
                             THEN <<Call("setVMCount", "migrate", 0, "", appLock,
                                         ZeroGroupCounts(oldVmCounts),
                                         r # "setFailed")>>
                             ELSE <<>>
               waitCall == IF r # "setFailed"
                              THEN <<Call("waitForAllocsZero", "migrate", 0, r,
                                          "", {}, r = "ok")>>
                              ELSE <<>>
           IN  calls' = calls \o setCall \o waitCall
        /\ IF r = "ok"
              THEN /\ recovery' = [recovery EXCEPT !.scaledToZero = TRUE]
                   /\ pc' = next
                   /\ err' = err
                   /\ failedAt' = failedAt
              ELSE /\ recovery' = recovery
                   /\ Return("error", leaseDefer)
                   /\ failedAt' = step

\* The early branch: `if !m.canAvoidDowntime { scaleNomadToZero }`.
StepScaleEarly ==
    /\ pc = "scaleEarly"
    /\ IF ~canAvoidDowntime
          THEN ScaleNomadToZero("scaleEarly", "cp_scaleEarly")
          ELSE /\ pc' = "cp_scaleEarly"
               /\ UNCHANGED <<calls, recovery, err, failedAt>>
    /\ UNCHANGED <<planVars, appLock, releaseId, newMachines, leases,
                   refreshing, leaseDefer, aborted, newlyCreatedMachines, idx,
                   rbErr, cpLocked, cpPlatform, cpMachines, abortSetAt,
                   abortSeenAt, abortSeenIdx, rollbackRuns>>

\* An updateAppPlatformVersion that does not record the value it has set.
UpdateAppPlatformVersion_NoRecord(platform, by, ok) ==
    /\ calls' = Append(calls, Call("setPlatformVersion", by, 0, platform,
                                   appLock, {}, ok))
    /\ cpPlatform' = IF ok THEN platform ELSE cpPlatform
    /\ recovery' = recovery

\* updateAppPlatformVersion(platform), issued by `by`: the call carries
\* m.appLock; the tracker records the value only when the call succeeded.
UpdateAppPlatformVersion(platform, by, ok) ==
    /\ calls' = Append(calls, Call("setPlatformVersion", by, 0, platform,
                                   appLock, {}, ok))
    /\ cpPlatform' = IF ok THEN platform ELSE cpPlatform
    /\ recovery' = IF ok THEN [recovery EXCEPT !.platformVersion = platform]
                         ELSE recovery

StepDetach ==
    /\ pc = "detach"
    /\ \E ok \in BOOLEAN :
        /\ UpdateAppPlatformVersion("detached", "migrate", ok)
        /\ IF ok
              THEN pc' = "cp_detach" /\ err' = err /\ failedAt' = failedAt
              ELSE Return("error", leaseDefer) /\ failedAt' = "detach"
    /\ UNCHANGED <<planVars, appLock, releaseId, newMachines, leases,
                   refreshing, leaseDefer, aborted, newlyCreatedMachines, idx,
                   rbErr, cpLocked, cpMachines, abortSetAt, abortSeenAt,
                   abortSeenIdx, rollbackRuns>>

\* createRelease: registers the release and keeps its id.
StepRelease ==
    /\ pc = "release"
    /\ \E ok \in BOOLEAN :
        /\ calls' = Append(calls, Call("createRelease", "migrate", 0,
                                       "machines", "", {}, ok))
        /\ IF ok
              THEN /\ releaseId' = "release1"
                   /\ pc' = "cp_release"
                   /\ err' = err
                   /\ failedAt' = failedAt
              ELSE /\ releaseId' = releaseId
                   /\ Return("error", leaseDefer)
                   /\ failedAt' = "release"
    /\ UNCHANGED <<planVars, appLock, recovery, newMachines, leases,
                   refreshing, leaseDefer, aborted, newlyCreatedMachines, idx,
                   rbErr, cpLocked, cpPlatform, cpMachines, abortSetAt,
                   abortSeenAt, abortSeenIdx, rollbackRuns>>

\* createMachines' deferred assignment: the tracker receives the local slice
\* when createMachines returns, on success and on failure alike.
MachinesCreatedOnReturn_Drop(newly) == <<>>

MachinesCreatedOnReturn(newly) == newly

\* createMachines, one iteration: Launch for input idx.  A failure returns at
\* once (no later launch); a success appends the machine to the local slice.
CreateMachinesLaunch ==
    /\ pc = "create"
    /\ idx <= Len(newMachinesInput)
    /\ \E ok \in BOOLEAN :
        /\ calls' = Append(calls, Call("launch", "migrate", idx,
                                       newMachinesInput[idx].group, "", {}, ok))
        /\ IF ok
              THEN /\ newlyCreatedMachines' =
                          Append(newlyCreatedMachines, LaunchedMachine(idx))
                   /\ cpMachines' = cpMachines \cup {LaunchedMachine(idx).id}
                   /\ idx' = idx + 1
                   /\ UNCHANGED <<recovery, pc, err, failedAt>>
              ELSE /\ recovery' = [recovery EXCEPT !.machinesCreated =
                            MachinesCreatedOnReturn(newlyCreatedMachines)]
                   /\ Return("error", leaseDefer)
                   /\ failedAt' = "create"
                   /\ UNCHANGED <<newlyCreatedMachines, cpMachines, idx>>
    /\ UNCHANGED <<planVars, appLock, releaseId, newMachines, leases,
                   refreshing, leaseDefer, aborted, rbErr, cpLocked,
                   cpPlatform, abortSetAt, abortSeenAt, abortSeenIdx,
                   rollbackRuns>>

\* createMachines, after the last iteration: the machine set is built.
CreateMachinesReturn ==
    /\ pc = "create"
    /\ idx > Len(newMachinesInput)
    /\ newMachines' = newlyCreatedMachines
    /\ recovery' = [recovery EXCEPT !.machinesCreated =
                        MachinesCreatedOnReturn(newlyCreatedMachines)]
    /\ pc' = "cp_create"
    /\ UNCHANGED <<planVars, appLock, releaseId, leases, refreshing,
                   leaseDefer, err, aborted, newlyCreatedMachines, idx, rbErr,
                   calls, cpLocked, cpPlatform, cpMachines, histVars>>

\* The lease calls AcquireLeases issues: one per machine of the set, in order,
\* stopping at the first failure k (k = 0: none fails).
AcquireCalls(k) ==
    [i \in 1..(IF k = 0 THEN Len(newMachines) ELSE k) |->
        Call("acquireLease", "migrate", newMachines[i].id, "", "", {}, i # k)]

\* AcquireLeases, and the registration of the deferred ReleaseLeases, which
\* precedes the test of the error.
StepAcquire ==
    /\ pc = "acquire"
    /\ \E k \in 0..Len(newMachines) :
        /\ calls' = calls \o AcquireCalls(k)
        /\ leases' = {newMachines[i].id :
                        i \in 1..(IF k = 0 THEN Len(newMachines) ELSE k - 1)}
        /\ leaseDefer' = TRUE
        /\ IF k = 0
              THEN pc' = "cp_acquire" /\ err' = err /\ failedAt' = failedAt
              ELSE Return("error", TRUE) /\ failedAt' = "acquire"
    /\ UNCHANGED <<planVars, appLock, releaseId, recovery, newMachines,
                   refreshing, aborted, newlyCreatedMachines, idx, rbErr,
                   cpLocked, cpPlatform, cpMachines, abortSetAt, abortSeenAt,
                   abortSeenIdx, rollbackRuns>>

\* unlockApp's bookkeeping: appLocked is cleared only after a successful call.
AppLockedAfterUnlock_Keep(ok, locked) == locked

AppLockedAfterUnlock(ok, locked) == IF ok THEN FALSE ELSE locked

\* unlockApp, issued by `by`.
UnlockApp(by, ok) ==
    /\ calls' = Append(calls, Call("unlockApp", by, 0, "", appLock, {}, ok))
    /\ cpLocked' = IF ok THEN FALSE ELSE cpLocked
    /\ recovery' = [recovery EXCEPT
                      !.appLocked = AppLockedAfterUnlock(ok, recovery.appLocked)]

\* StartBackgroundLeaseRefresh followed by unlockApp.
StepUnlock ==
    /\ pc = "unlock"
    /\ refreshing' = TRUE
    /\ \E ok \in BOOLEAN :
        /\ UnlockApp("migrate", ok)
        /\ IF ok
              THEN pc' = "cp_unlock" /\ err' = err /\ failedAt' = failedAt
              ELSE Return("error", leaseDefer) /\ failedAt' = "unlock"
    /\ UNCHANGED <<planVars, appLock, releaseId, newMachines, leases,
                   leaseDefer, aborted, newlyCreatedMachines, idx, rbErr,
                   cpPlatform, cpMachines, abortSetAt, abortSeenAt,
                   abortSeenIdx, rollbackRuns>>

\* The release calls ReleaseLeases issues: one per held lease, in the order of
\* the set; those in `failed` fail.
ReleaseCalls(by, failed) ==
    LET held == SelectSeq(newMachines, LAMBDA mach : mach.id \in leases)
    IN  [i \in DOMAIN held |->
            Call("releaseLease", by, held[i].id, "", "", {},
                 held[i].id \notin failed)]

\* The outcomes of one ReleaseLeases considered: no release call fails, or
\* the release call of one machine does.
ReleaseFailures == {{}} \cup {{id} : id \in leases}

\* A ReleaseLeases that leaves the background refresh running.
ReleaseLeases_KeepRefresh(by) ==
    \E failed \in ReleaseFailures :
        /\ calls' = calls \o ReleaseCalls(by, failed)
        /\ leases' = {}
        /\ refreshing' = refreshing

\* ReleaseLeases: best effort, stops the background refresh, forgets every
\* lease whether or not its release call succeeded.
ReleaseLeases(by) ==
    \E failed \in ReleaseFailures :
        /\ calls' = calls \o ReleaseCalls(by, failed)
        /\ leases' = {}
        /\ refreshing' = FALSE

\* A ReleaseLeases call before deployApp whose failure is returned.
StepReleaseLeases_Escalate ==
    /\ pc = "releaseLeases"
    /\ \E failed \in ReleaseFailures :
        /\ calls' = calls \o ReleaseCalls("migrate", failed)
        /\ leases' = {}
        /\ refreshing' = FALSE
        /\ IF failed = {}
              THEN pc' = "deploy" /\ err' = err /\ failedAt' = failedAt
              ELSE Return("error", leaseDefer) /\ failedAt' = "releaseLeases"
    /\ UNCHANGED <<planVars, appLock, releaseId, recovery, newMachines,
                   leaseDefer, aborted, newlyCreatedMachines, idx, rbErr,
                   cpLocked, cpPlatform, cpMachines, abortSetAt, abortSeenAt,
                   abortSeenIdx, rollbackRuns>>

\* The ReleaseLeases call that precedes deployApp.
StepReleaseLeases ==
    /\ pc = "releaseLeases"
    /\ ReleaseLeases("migrate")
    /\ pc' = "deploy"
    /\ UNCHANGED <<planVars, appLock, releaseId, recovery, newMachines,
                   leaseDefer, err, aborted, newlyCreatedMachines, idx, rbErr,
                   cpLocked, cpPlatform, cpMachines, histVars>>

\* deployApp's result: an error of NewMachineDeployment is returned, an error
\* of DeployMachinesApp is reported to sentry and nil is returned.
DeployAppResult(r) == IF r = "newFailed" THEN "error" ELSE "nil"

\* deployApp.
StepDeploy ==
    /\ pc = "deploy"
    /\ \E r \in {"ok", "newFailed", "deployFailed"} :
        /\ calls' = calls \o
              <<Call("newMachineDeployment", "migrate", 0, "", "", {},
                     r # "newFailed")>> \o
              (IF r # "newFailed"
                  THEN <<Call("deployMachinesApp", "migrate", 0, "", "", {},
                              r = "ok")>>
                  ELSE <<>>)
        /\ IF DeployAppResult(r) = "nil"
              THEN pc' = "cp_deploy" /\ err' = err /\ failedAt' = failedAt
              ELSE Return("error", leaseDefer) /\ failedAt' = "deploy"
    /\ UNCHANGED <<planVars, appLock, releaseId, recovery, newMachines, leases,
                   refreshing, leaseDefer, aborted, newlyCreatedMachines, idx,
                   rbErr, cpLocked, cpPlatform, cpMachines, abortSetAt,
                   abortSeenAt, abortSeenIdx, rollbackRuns>>

\* A late branch that ignores canAvoidDowntime.
StepScaleLate_Always ==
    /\ pc = "scaleLate"
    /\ ScaleNomadToZero("scaleLate", "cp_scaleLate")
    /\ UNCHANGED <<planVars, appLock, releaseId, newMachines, leases,
                   refreshing, leaseDefer, aborted, newlyCreatedMachines, idx,
                   rbErr, cpLocked, cpPlatform, cpMachines, abortSetAt,
                   abortSeenAt, abortSeenIdx, rollbackRuns>>

\* The late branch: `if m.canAvoidDowntime { scaleNomadToZero; checkpoint }`.
StepScaleLate ==
    /\ pc = "scaleLate"
    /\ IF canAvoidDowntime
          THEN ScaleNomadToZero("scaleLate", "cp_scaleLate")
          ELSE /\ pc' = "switch"
               /\ UNCHANGED <<calls, recovery, err, failedAt>>
    /\ UNCHANGED <<planVars, appLock, releaseId, newMachines, leases,
                   refreshing, leaseDefer, aborted, newlyCreatedMachines, idx,
                   rbErr, cpLocked, cpPlatform, cpMachines, abortSetAt,
                   abortSeenAt, abortSeenIdx, rollbackRuns>>

\* updateAppPlatformVersion("machines"); no checkpoint follows it.
StepSwitch ==
    /\ pc = "switch"
    /\ \E ok \in BOOLEAN :
        /\ UpdateAppPlatformVersion("machines", "migrate", ok)
        /\ IF ok
              THEN pc' = "write" /\ err' = err /\ failedAt' = failedAt
              ELSE Return("error", leaseDefer) /\ failedAt' = "switch"
    /\ UNCHANGED <<planVars, appLock, releaseId, newMachines, leases,
                   refreshing, leaseDefer, aborted, newlyCreatedMachines, idx,
                   rbErr, cpLocked, cpMachines, abortSetAt, abortSeenAt,
                   abortSeenIdx, rollbackRuns>>

\* The config file is written, and onlyPromptToConfigSave is set once the
\* write has succeeded.
StepWrite_FlagAfter ==
    /\ pc = "write"
    /\ \E ok \in BOOLEAN :
        /\ recovery' = [recovery EXCEPT !.onlyPromptToConfigSave = ok]
        /\ calls' = Append(calls, Call("writeToDisk", "migrate", 0, "", "",
                                       {}, ok))
        /\ Return(IF ok THEN "nil" ELSE "error", leaseDefer)
        /\ failedAt' = IF ok THEN failedAt ELSE "write"
    /\ UNCHANGED <<planVars, appLock, releaseId, newMachines, leases,
                   refreshing, leaseDefer, aborted, newlyCreatedMachines, idx,
                   rbErr, cpLocked, cpPlatform, cpMachines, abortSetAt,
                   abortSeenAt, abortSeenIdx, rollbackRuns>>

\* onlyPromptToConfigSave is set, then the config file is written.
StepWrite ==
    /\ pc = "write"
    /\ recovery' = [recovery EXCEPT !.onlyPromptToConfigSave = TRUE]
    /\ \E ok \in BOOLEAN :
        /\ calls' = Append(calls, Call("writeToDisk", "migrate", 0, "", "",
                                       {}, ok))
        /\ Return(IF ok THEN "nil" ELSE "error", leaseDefer)
        /\ failedAt' = IF ok THEN failedAt ELSE "write"
    /\ UNCHANGED <<planVars, appLock, releaseId, newMachines, leases,
                   refreshing, leaseDefer, aborted, newlyCreatedMachines, idx,
                   rbErr, cpLocked, cpPlatform, cpMachines, abortSetAt,
                   abortSeenAt, abortSeenIdx, rollbackRuns>>

-----------------------------------------------------------------------------
(* Deferred functions of Migrate *)

\* The deferred ReleaseLeases; its error is only printed.
DeferRelease ==
    /\ pc = "defer_release"
    /\ ReleaseLeases("defer")
    /\ pc' = "defer_recovery"
    /\ UNCHANGED <<planVars, appLock, releaseId, recovery, newMachines,
                   leaseDefer, err, aborted, newlyCreatedMachines, idx, rbErr,
                   cpLocked, cpPlatform, cpMachines, histVars>>

\* The deferred recovery's decision: rollback runs when Migrate returns an
\* error, unless only the config file is left to save.
ShouldRollback_AbortOnly(e, onlyPrompt) == e = "aborted" /\ ~onlyPrompt

ShouldRollback_Always(e, onlyPrompt) == e # "nil"

ShouldRollback(e, onlyPrompt) == e # "nil" /\ ~onlyPrompt

\* The deferred recovery: at most one call of rollback, whose error is only
\* printed.
DeferRecovery ==
    /\ pc = "defer_recovery"
    /\ IF ShouldRollback(err, recovery.onlyPromptToConfigSave)
          THEN /\ rollbackRuns' = rollbackRuns + 1
               /\ idx' = 1
               /\ pc' = "rb_destroy"
          ELSE /\ pc' = "returned"
               /\ UNCHANGED <<rollbackRuns, idx>>
    /\ UNCHANGED <<planVars, appLock, releaseId, recovery, newMachines, leases,
                   refreshing, leaseDefer, err, aborted, newlyCreatedMachines,
                   rbErr, calls, cpLocked, cpPlatform, cpMachines, failedAt,
                   abortSetAt, abortSeenAt, abortSeenIdx>>

-----------------------------------------------------------------------------
(* rollback *)

\* What the control plane answers to a Destroy: a failure for a machine that
\* no longer exists says so.
DestroyAnswer(id, ok) ==
    IF ~ok /\ id \notin cpMachines THEN "already destroyed" ELSE ""

\* The loop over recovery.machinesCreated, one iteration: a failed Destroy
\* returns from rollback at once (its deferred function still runs).
RollbackDestroy ==
    /\ pc = "rb_destroy"
    /\ idx <= Len(recovery.machinesCreated)
    /\ \E ok \in BOOLEAN :
        /\ calls' = Append(calls, Call("destroy", "rollback",
                              recovery.machinesCreated[idx].id,
                              DestroyAnswer(recovery.machinesCreated[idx].id, ok),
                              "", {}, ok))
        /\ IF ok
              THEN /\ cpMachines' = cpMachines \
                                      {recovery.machinesCreated[idx].id}
                   /\ idx' = idx + 1
                   /\ UNCHANGED <<pc, rbErr>>
              ELSE /\ rbErr' = "error"
                   /\ pc' = "rb_unlock"
                   /\ UNCHANGED <<cpMachines, idx>>
    /\ UNCHANGED <<planVars, appLock, releaseId, recovery, newMachines, leases,
                   refreshing, leaseDefer, err, aborted, newlyCreatedMachines,
                   cpLocked, cpPlatform, histVars>>

\* The loop is over (or there was no machine to remove).
RollbackDestroyDone ==
    /\ pc = "rb_destroy"
    /\ idx > Len(recovery.machinesCreated)
    /\ pc' = "rb_platform"
    /\ UNCHANGED <<planVars, appLock, releaseId, recovery, newMachines, leases,
                   refreshing, leaseDefer, err, aborted, newlyCreatedMachines,
                   idx, rbErr, calls, cpLocked, cpPlatform, cpMachines,
                   histVars>>

\* `if m.recovery.platformVersion != "nomad"`: the marker is set back.
RollbackPlatform ==
    /\ pc = "rb_platform"
    /\ IF recovery.platformVersion # "nomad"
          THEN \E ok \in BOOLEAN :
                  /\ UpdateAppPlatformVersion("nomad", "rollback", ok)
                  /\ rbErr' = IF ok THEN rbErr ELSE "error"
                  /\ pc' = IF ok THEN "rb_counts" ELSE "rb_unlock"
          ELSE /\ pc' = "rb_counts"
               /\ UNCHANGED <<calls, cpPlatform, recovery, rbErr>>
    /\ UNCHANGED <<planVars, appLock, releaseId, newMachines, leases,
                   refreshing, leaseDefer, err, aborted, newlyCreatedMachines,
                   idx, cpLocked, cpMachines, histVars>>

\* `if m.recovery.scaledToZero && len(m.oldAllocs) > 0`: the old counts are
\* requested, with the lock token when the lock is recorded as held and with
\* an empty token otherwise.
RollbackCounts ==
    /\ pc = "rb_counts"
    /\ IF recovery.scaledToZero /\ Len(oldAllocs) > 0
          THEN \E ok \in BOOLEAN :
                  /\ calls' = Append(calls,
                        Call("setVMCount", "rollback", 0, "",
                             IF recovery.appLocked THEN appLock ELSE "",
                             RestoreGroupCounts(oldVmCounts), ok))
                  /\ rbErr' = IF ok THEN rbErr ELSE "error"
          ELSE UNCHANGED <<calls, rbErr>>
    /\ pc' = "rb_unlock"
    /\ UNCHANGED <<planVars, appLock, releaseId, recovery, newMachines, leases,
                   refreshing, leaseDefer, err, aborted, newlyCreatedMachines,
                   idx, cpLocked, cpPlatform, cpMachines, histVars>>

\* Whether rollback prints the answer of ResumeApp: an error, unless it says
\* the application is not suspended.
ResumeReported(answer) == answer # "ok" /\ answer # "not suspended"

\* A deferred function of rollback that unlocks whatever the tracker says.
RollbackUnlock_Always ==
    /\ pc = "rb_unlock"
    /\ \E ok \in BOOLEAN : UnlockApp("rollback", ok)
    /\ pc' = "rb_resume"
    /\ UNCHANGED <<planVars, appLock, releaseId, newMachines, leases,
                   refreshing, leaseDefer, err, aborted, newlyCreatedMachines,
                   idx, rbErr, cpPlatform, cpMachines, histVars>>

\* rollback's deferred function, first half: unlock if recorded as locked.
RollbackUnlock ==
    /\ pc = "rb_unlock"
    /\ IF recovery.appLocked
          THEN \E ok \in BOOLEAN : UnlockApp("rollback", ok)
          ELSE UNCHANGED <<calls, cpLocked, recovery>>
    /\ pc' = "rb_resume"
    /\ UNCHANGED <<planVars, appLock, releaseId, newMachines, leases,
                   refreshing, leaseDefer, err, aborted, newlyCreatedMachines,
                   idx, rbErr, cpPlatform, cpMachines, histVars>>

\* A rollback that is run a second time when its first run returned an error.
RollbackResume_RetryOnce ==
    /\ pc = "rb_resume"
    /\ \E r \in {"ok", "not suspended", "error"} :
        calls' = Append(calls, Call("resumeApp", "rollback", 0, r, "", {},
                                    r = "ok"))
    /\ IF rbErr = "error" /\ rollbackRuns < 2
          THEN /\ rollbackRuns' = rollbackRuns + 1
               /\ rbErr' = "nil"
               /\ idx' = 1
               /\ pc' = "rb_destroy"
          ELSE /\ pc' = "returned"
               /\ UNCHANGED <<rollbackRuns, rbErr, idx>>
    /\ UNCHANGED <<planVars, appLock, releaseId, recovery, newMachines, leases,
                   refreshing, leaseDefer, err, aborted, newlyCreatedMachines,
                   cpLocked, cpPlatform, cpMachines, failedAt, abortSetAt,
                   abortSeenAt, abortSeenIdx>>

\* rollback's deferred function, second half: ResumeApp, whose error is only
\* printed, and not even that when it says "not suspended".
RollbackResume ==
    /\ pc = "rb_resume"
    /\ \E r \in {"ok", "not suspended", "error"} :
        calls' = Append(calls, Call("resumeApp", "rollback", 0, r, "", {},
                                    r = "ok"))
    /\ pc' = "returned"
    /\ UNCHANGED <<planVars, appLock, releaseId, recovery, newMachines, leases,
                   refreshing, leaseDefer, err, aborted, newlyCreatedMachines,
                   idx, rbErr, cpLocked, cpPlatform, cpMachines, histVars>>

-----------------------------------------------------------------------------

Next ==
    \/ Signal
    \/ \E cp \in Checkpoints : Checkpoint(cp)
    \/ StepLock
    \/ StepScaleEarly
    \/ StepDetach
    \/ StepRelease
    \/ CreateMachinesLaunch
    \/ CreateMachinesReturn
    \/ StepAcquire
    \/ StepUnlock
    \/ StepReleaseLeases
    \/ StepDeploy
    \/ StepScaleLate
    \/ StepSwitch
    \/ StepWrite
    \/ DeferRelease
    \/ DeferRecovery
    \/ RollbackDestroy
    \/ RollbackDestroyDone
    \/ RollbackPlatform
    \/ RollbackCounts
    \/ RollbackUnlock
    \/ RollbackResume

Spec == Init /\ [][Next]_vars

\* Largest legacy fleet of the runs followed to their end under fairness.
MaxLiveAllocs == 1

InitLive == Init /\ Len(oldAllocs) <= MaxLiveAllocs

\* Migrate when every remote call returns and the process is scheduled: a
\* step that can be taken is taken.
SpecLive == InitLive /\ [][Next]_vars /\ WF_vars(Next)

\* rollback invoked a second time on the same migrator, after the first
\* invocation has returned (Migrate itself never does this).
RollbackAgain ==
    /\ pc = "returned"
    /\ rollbackRuns = 1
    /\ rollbackRuns' = 2
    /\ rbErr' = "nil"
    /\ idx' = 1
    /\ pc' = "rb_destroy"
    /\ UNCHANGED <<planVars, appLock, releaseId, recovery, newMachines, leases,
                   refreshing, leaseDefer, err, aborted, newlyCreatedMachines,
                   calls, cpLocked, cpPlatform, cpMachines, failedAt,
                   abortSetAt, abortSeenAt, abortSeenIdx>>

NextRetry == Next \/ RollbackAgain

\* The fleets for which the second invocation is explored.
InitRetry == Init /\ Len(oldAllocs) <= MaxRetryAllocs

\* Migrate followed by a second invocation of rollback.
SpecRetry == InitRetry /\ [][NextRetry]_vars

-----------------------------------------------------------------------------
(* runMigrateToV2 and NewV2PlatformMigrator *)

\* Values of the platform marker of an application.
AllPlatforms == InitialPlatforms \cup {"machines"}

\* Allocations GetAllocations may return to the constructor.
AllocStatuses == [task : Groups, region : Regions, volumes : 0..MaxVolumes]

\* The fields of the migrator, assigned by the constructor.
migratorVars == <<oldAllocs, oldVmCounts, newMachinesInput, canAvoidDowntime,
                  appFullPlatformVersion, recovery>>

\* What the constructor and the confirmation prompt leave alone.
runVars == <<appLock, releaseId, newMachines, leases, refreshing, leaseDefer,
             err, aborted, newlyCreatedMachines, idx, rbErr, calls, cpLocked,
             cpPlatform, cpMachines, failedAt, abortSetAt, abortSeenAt,
             abortSeenIdx, rollbackRuns, liveFleet, migrators, machineWait>>

\* `if appFull.PlatformVersion == "machines"`.
PlatformRejected_Never(platformVersion) == FALSE

PlatformRejected(platformVersion) == platformVersion = "machines"

\* validateScaling: an error when the autoscaling configuration is enabled.
ValidateScaling(autoscale) == IF autoscale THEN "error" ELSE "nil"

\* validateVolumes: an error when the config has a mounts section or an
\* allocation has a volume attached.
ValidateVolumes(mounts, allocs) ==
    IF mounts \/ \E i \in DOMAIN allocs : allocs[i].volumes > 0
    THEN "error" ELSE "nil"

\* validateProcessGroupsOnAllocs: an error when an allocation's task name is
\* not a key of processConfigs.
ValidateProcessGroupsOnAllocs(allocs, procs) ==
    IF \E i \in DOMAIN allocs : allocs[i].task \notin procs
    THEN "error" ELSE "nil"

\* validate: cfgOk is the answer of ValidateForMachinesPlatform. When
\* validateScaling returns an error, validate returns nil at once.
Validate(cfgOk, autoscale, mounts, allocs, procs) ==
    IF ~cfgOk THEN "error"
    ELSE IF ValidateScaling(autoscale) # "nil" THEN "nil"
    ELSE IF ValidateVolumes(mounts, allocs) # "nil" THEN "error"
    ELSE ValidateProcessGroupsOnAllocs(allocs, procs)

\* resolveMachineFromAlloc dereferences processConfigs[alloc.TaskName], a nil
\* pointer when the task name is not a key of the map.
ResolvePanics(allocs, procs) ==
    \E i \in DOMAIN allocs : allocs[i].task \notin procs

\* `return nil, err` of the constructor, `return err` of runMigrateToV2.
CtorFail(cause) ==
    ctor' = [ctor EXCEPT !.pc = "done", !.result = "error", !.cause = cause]

InitNew ==
    /\ oldAllocs = <<>>
    /\ oldVmCounts = ResolveProcessGroups(<<>>)
    /\ newMachinesInput = <<>>
    /\ canAvoidDowntime = FALSE
    /\ appFullPlatformVersion = ""
    /\ appLock = ""
    /\ releaseId = ""
    /\ recovery = [machinesCreated |-> <<>>, appLocked |-> FALSE,
                   scaledToZero |-> FALSE, platformVersion |-> "",
                   onlyPromptToConfigSave |-> FALSE]
    /\ newMachines = <<>>
    /\ leases = {}
    /\ refreshing = FALSE
    /\ leaseDefer = FALSE
    /\ pc = "notStarted"
    /\ err = "nil"
    /\ aborted = FALSE
    /\ newlyCreatedMachines = <<>>
    /\ idx = 1
    /\ rbErr = "nil"
    /\ calls = <<>>
    /\ cpLocked = FALSE
    /\ cpPlatform \in AllPlatforms
    /\ cpMachines = {}
    /\ failedAt = "none"
    /\ abortSetAt = "none"
    /\ abortSeenAt = "none"
    /\ abortSeenIdx = 0
    /\ rollbackRuns = 0
    /\ ctor = [pc |-> "getApp", platform |-> "", autoscale |-> FALSE,
               mounts |-> FALSE, procs |-> {}, fetched |-> FALSE,
               result |-> "none", cause |-> "", confirm |-> "none"]
    /\ wait = WaitIdle
    /\ renewal = RenewalIdle
    /\ liveFleet = FleetAsSnapshot
    /\ migrators = MigratorsIdle
    /\ machineWait = MachineWaitIdle

\* GetAppCompact, flaps.New and GetApp: any of them may fail; GetApp reads the
\* platform marker.
NewGetApp ==
    /\ ctor.pc = "getApp"
    /\ \E ok \in BOOLEAN :
          IF ok
          THEN ctor' = [ctor EXCEPT !.pc = "checkPlatform",
                                    !.platform = cpPlatform]
          ELSE CtorFail("remote")
    /\ UNCHANGED <<migratorVars, runVars, pc, wait, renewal>>

NewCheckPlatform ==
    /\ ctor.pc = "checkPlatform"
    /\ IF PlatformRejected(ctor.platform)
       THEN CtorFail("platform")
       ELSE ctor' = [ctor EXCEPT !.pc = "gather"]
    /\ UNCHANGED <<migratorVars, runVars, pc, wait, renewal>>

\* The reads from determineAppConfigForMachines to determineVmSpecs, any of
\* which may fail, and the construction of the migrator.
NewGather ==
    /\ ctor.pc = "gather"
    /\ \/ /\ CtorFail("remote")
          /\ UNCHANGED migratorVars
       \/ \E autoscale \in BOOLEAN, mounts \in BOOLEAN,
             procs \in (SUBSET Groups) \ {{}},
             allocs \in SeqsUpTo(AllocStatuses, MaxNewAllocs) :
             /\ ctor' = [ctor EXCEPT !.pc = "validate", !.fetched = TRUE,
                                     !.autoscale = autoscale,
                                     !.mounts = mounts, !.procs = procs]
             /\ oldAllocs' = allocs
             /\ canAvoidDowntime' = TRUE
             /\ appFullPlatformVersion' = ctor.platform
             /\ recovery' = [recovery EXCEPT !.platformVersion = ctor.platform]
             /\ UNCHANGED <<oldVmCounts, newMachinesInput>>
    /\ UNCHANGED <<runVars, pc, wait, renewal>>

NewValidate ==
    /\ ctor.pc = "validate"
    /\ \E cfgOk \in BOOLEAN :
          IF Validate(cfgOk, ctor.autoscale, ctor.mounts, oldAllocs,
                      ctor.procs) = "nil"
          THEN ctor' = [ctor EXCEPT !.pc = "plan"]
          ELSE CtorFail("validate")
    /\ UNCHANGED <<migratorVars, runVars, pc, wait, renewal>>

\* determinePrimaryRegion, then prepMachinesToCreate.
NewPlan ==
    /\ ctor.pc = "plan"
    /\ \E regionOk \in BOOLEAN :
          IF ~regionOk
          THEN CtorFail("region") /\ UNCHANGED newMachinesInput
          ELSE IF ResolvePanics(oldAllocs, ctor.procs)
          THEN /\ ctor' = [ctor EXCEPT !.pc = "done", !.result = "panic",
                                       !.cause = "nil pointer"]
               /\ UNCHANGED newMachinesInput
          ELSE /\ ctor' = [ctor EXCEPT !.pc = "configPath"]
               /\ newMachinesInput' =
                      ResolveMachinesFromAllocs(oldAllocs, releaseId)
    /\ UNCHANGED <<oldAllocs, oldVmCounts, canAvoidDowntime,
                   appFullPlatformVersion, recovery, runVars, pc, wait, renewal>>

\* determineConfigPath, then resolveProcessGroups and `return migrator, nil`.
NewFinish ==
    /\ ctor.pc = "configPath"
    /\ \E ok \in BOOLEAN :
          IF ok
          THEN /\ ctor' = [ctor EXCEPT !.pc = "confirm",
                                       !.result = "migrator"]
               /\ oldVmCounts' = ResolveProcessGroups(oldAllocs)
          ELSE CtorFail("config") /\ UNCHANGED oldVmCounts
    /\ UNCHANGED <<oldAllocs, newMachinesInput, canAvoidDowntime,
                   appFullPlatformVersion, recovery, runVars, pc, wait, renewal>>

\* runMigrateToV2 with a prompt whose answer is not looked at.
RunConfirm_IgnoreAnswer ==
    /\ ctor.pc = "confirm"
    /\ \E yes \in BOOLEAN, answer \in {"yes", "no", "error"} :
          /\ ctor' = [ctor EXCEPT !.pc = "done",
                         !.confirm = IF yes THEN "skipped" ELSE answer]
          /\ pc' = "lock"
    /\ UNCHANGED <<migratorVars, runVars, wait, renewal>>

\* runMigrateToV2 after the constructor returned a migrator: the prompt unless
\* --yes was given, then Migrate.
RunConfirm ==
    /\ ctor.pc = "confirm"
    /\ \E yes \in BOOLEAN, answer \in {"yes", "no", "error"} :
          /\ ctor' = [ctor EXCEPT !.pc = "done",
                         !.confirm = IF yes THEN "skipped" ELSE answer]
          /\ pc' = IF yes \/ answer = "yes" THEN "lock" ELSE "notStarted"
    /\ UNCHANGED <<migratorVars, runVars, wait, renewal>>

NextNew ==
    \/ NewGetApp
    \/ NewCheckPlatform
    \/ NewGather
    \/ NewValidate
    \/ NewPlan
    \/ NewFinish
    \/ RunConfirm

\* The command from its start to the invocation of Migrate.
SpecNew == InitNew /\ [][NextNew]_vars

\* Largest fleet of the command followed from the prompt on.
MaxRunAllocs == 1

\* runMigrateToV2 once the constructor has returned a migrator: the prompt
\* has not been shown yet, Migrate has not been invoked.
InitRun ==
    /\ Constructed(TRUE)
    /\ Len(oldAllocs) <= MaxRunAllocs
    /\ pc = "notStarted"
    /\ ctor = [CtorDone(appFullPlatformVersion) EXCEPT !.pc = "confirm",
                                                       !.confirm = "none"]

\* The command from the prompt to its end.
NextRun == RunConfirm \/ Next

SpecRun == InitRun /\ [][NextRun]_vars

-----------------------------------------------------------------------------
(* waitForAllocsZero *)

RECURSIVE Pow(_, _)
Pow(b, n) == IF n = 0 THEN 1 ELSE b * Pow(b, n - 1)

\* The backoff's duration for an attempt before jitter: Min * Factor^attempt,
\* at most Max.
ForAttempt(attempt) ==
    LET d == (BackoffMin * Pow(BackoffFactorNum, attempt))
                 \div Pow(BackoffFactorDen, attempt)
    IN  IF d > BackoffMax THEN BackoffMax ELSE d

\* b.Duration() with Jitter: a duration between Min and the attempt's.
BackoffDurations(attempt) == BackoffMin..ForAttempt(attempt)

\* Answers of GetAllocations: an error, no allocation, some allocations.
PollOutcomes == {"error", "zero", "nonzero"}

\* What the loop does with an answer: return err, return nil, go round again.
PollVerdict_RetryError(outcome) ==
    IF outcome = "zero" THEN "nil" ELSE "retry"

PollVerdict(outcome) ==
    CASE outcome = "error"   -> "error"
      [] outcome = "zero"    -> "nil"
      [] outcome = "nonzero" -> "retry"

\* Everything but the state of the wait.
waitFrame == <<migratorVars, runVars, pc, ctor, renewal>>

\* The wait is explored from the migrator of one fleet: it reads nothing of
\* the migrator but the client and the application's name.
InitWait ==
    /\ Init
    /\ oldAllocs = <<[task |-> "web", region |-> "ams", volumes |-> 0]>>
    /\ appFullPlatformVersion = "nomad"

\* `timeout := time.After(1 * time.Hour)` and the backoff's construction.
WaitStart ==
    /\ wait.pc = "idle"
    /\ wait' = [wait EXCEPT !.pc = "loop",
                            !.deadline = wait.now + HardTimeout]
    /\ UNCHANGED waitFrame

\* The head of the loop: `time.After(b.Duration())`, then the select blocks.
WaitArm ==
    /\ wait.pc = "loop"
    /\ \E d \in BackoffDurations(wait.attempt) :
          wait' = [wait EXCEPT !.pc = "select", !.due = wait.now + d,
                               !.attempt = wait.attempt + 1]
    /\ UNCHANGED waitFrame

\* A second passes while the select blocks: neither channel is ready.
WaitTick ==
    /\ wait.pc = "select"
    /\ wait.now < wait.due
    /\ wait.now < wait.deadline
    /\ wait' = [wait EXCEPT !.now = wait.now + 1]
    /\ UNCHANGED waitFrame

\* The backoff's timer fired: GetAllocations, which takes some time, and the
\* two tests of its answer.
WaitPoll ==
    /\ wait.pc = "select"
    /\ wait.now >= wait.due
    /\ \E outcome \in PollOutcomes, latency \in 0..MaxPollLatency :
          LET verdict == PollVerdict(outcome)
          IN  wait' = [wait EXCEPT
                  !.now = wait.now + latency,
                  !.log = Append(wait.log,
                                 [at |-> wait.now, outcome |-> outcome]),
                  !.pc = IF verdict = "retry" THEN "loop" ELSE "done",
                  !.result = IF verdict = "retry" THEN "none" ELSE verdict]
    /\ UNCHANGED waitFrame

\* The timeout branch taken without the hard timeout having fired.
WaitTimeout_Early ==
    /\ wait.pc = "select"
    /\ wait' = [wait EXCEPT !.pc = "done", !.result = "timeout"]
    /\ UNCHANGED waitFrame

\* The hard timeout fired.
WaitTimeout ==
    /\ wait.pc = "select"
    /\ wait.now >= wait.deadline
    /\ wait' = [wait EXCEPT !.pc = "done", !.result = "timeout"]
    /\ UNCHANGED waitFrame

NextWait ==
    \/ WaitStart
    \/ WaitArm
    \/ WaitTick
    \/ WaitPoll
    \/ WaitTimeout

\* One call of waitForAllocsZero.
SpecWait == InitWait /\ [][NextWait]_vars

\* One call of waitForAllocsZero that is not suspended for ever: timers fire
\* and GetAllocations answers.
SpecWaitLive == SpecWait /\ WF_vars(NextWait)

-----------------------------------------------------------------------------
(* The leases of the new machines and their background renewal *)

\* leaseDelayBetween := (leaseTimeout - 1*time.Second) / 3.
LeaseDelayBetween_WholeTimeout == LeaseTimeout

LeaseDelayBetween == (LeaseTimeout - 1) \div 3

\* Everything but the state of the renewal.
renewalFrame == <<migratorVars, runVars, pc, ctor, wait>>

\* The renewal is explored from the migrator of one fleet: the machine set
\* reads nothing of the migrator but the two durations.
InitLease ==
    /\ Init
    /\ oldAllocs = <<[task |-> "web", region |-> "ams", volumes |-> 0]>>
    /\ appFullPlatformVersion = "nomad"

\* AcquireLeases acquires the lease of the next machine.
LeaseAcquire ==
    /\ renewal.pc \in {"idle", "acquiring"}
    /\ Len(renewal.last) < MaxLeases
    /\ renewal' = [renewal EXCEPT
           !.pc = "acquiring",
           !.last = Append(renewal.last, renewal.now),
           !.count = Append(renewal.count, 0),
           !.failed = Append(renewal.failed, FALSE)]
    /\ UNCHANGED renewalFrame

\* StartBackgroundLeaseRefresh(ctx, leaseTimeout, leaseDelayBetween): the first
\* renewal is due one interval later.
LeaseStart ==
    /\ renewal.pc = "acquiring"
    /\ renewal' = [renewal EXCEPT !.pc = "running", !.start = renewal.now,
                                  !.due = renewal.now + LeaseDelayBetween]
    /\ UNCHANGED renewalFrame

\* A second passes: while leases are being acquired, or while the renewal
\* sleeps and the foreground works.
LeaseTick ==
    /\ \/ renewal.pc = "acquiring" /\ renewal.now < MaxStartDelay
       \/ /\ renewal.pc = "running"
          /\ renewal.now < renewal.due
          /\ renewal.now < renewal.start + LeaseWindow
    /\ renewal' = [renewal EXCEPT !.now = renewal.now + 1]
    /\ UNCHANGED renewalFrame

\* The renewal wakes up and renews every lease for leaseTimeout; a renewal
\* that fails is logged and the lease keeps its expiry.
LeaseRenew ==
    /\ renewal.pc = "running"
    /\ renewal.now = renewal.due
    /\ \E renewed \in SUBSET DOMAIN renewal.last :
          renewal' = [renewal EXCEPT
              !.last = [i \in DOMAIN renewal.last |->
                           IF i \in renewed THEN renewal.now
                           ELSE renewal.last[i]],
              !.count = [i \in DOMAIN renewal.count |-> renewal.count[i] + 1],
              !.failed = [i \in DOMAIN renewal.failed |->
                             renewal.failed[i] \/ i \notin renewed],
              !.due = renewal.due + LeaseDelayBetween]
    /\ UNCHANGED renewalFrame

\* ReleaseLeases ends the foreground window and stops the renewal.
LeaseStop ==
    /\ renewal.pc = "running"
    /\ renewal' = [renewal EXCEPT !.pc = "stopped"]
    /\ UNCHANGED renewalFrame

NextLease ==
    \/ LeaseAcquire
    \/ LeaseStart
    \/ LeaseTick
    \/ LeaseRenew
    \/ LeaseStop

\* The leases from AcquireLeases to ReleaseLeases.
SpecLease == InitLease /\ [][NextLease]_vars

-----------------------------------------------------------------------------
(* Migrate with either value of canAvoidDowntime *)

\* canAvoidDowntime is a field of the migrator that Migrate reads twice; the
\* constructor of this repository always sets it, so the value false is what a
\* caller that builds the migrator otherwise would pass.
InitBoth ==
    /\ \E avoidDowntime \in BOOLEAN : InitWith(avoidDowntime)
    /\ Len(oldAllocs) <= MaxBothAllocs

SpecBoth == InitBoth /\ [][Next]_vars

-----------------------------------------------------------------------------
(* machine.WaitForStartOrStop *)

\* Backoff{Min: 500ms, Max: 2s, Factor: 2, Jitter: false}, in milliseconds.
StartStopBackoffMin == 500

StartStopBackoffMax == 2000

StartStopBackoffFactor == 2

\* Longest timeout a caller passes, and longest time one remote wait takes,
\* in steps of the backoff's minimum.
MaxWaitTimeoutSteps == 4

MaxWaitLatencySteps == 2

\* b.Duration() without jitter: Min * Factor^attempt, at most Max.
StartStopDuration(attempt) ==
    LET d == StartStopBackoffMin * Pow(StartStopBackoffFactor, attempt)
    IN  IF d > StartStopBackoffMax THEN StartStopBackoffMax ELSE d

\* The actions callers pass.
WaitActions == {"start", "stop", "restart"}

\* The switch on action: the state to wait for, "" for the default branch.
WaitOnAction(action) ==
    CASE action = "start" -> "started"
      [] action = "stop"  -> "stopped"
      [] OTHER            -> ""

\* Answers of flapsClient.Wait: the machine reached the state (nil), an
\* HTTP 400, another failure of the request, the context's own error.
MachineWaitOutcomes == {"reached", "badRequest", "failed", "ctxError"}

\* waitCtx.Err() at time `now`.  When the parent was cancelled and the
\* deadline has passed, it is the one that came first: either.
WaitCtxErrs(canceled, now, deadline) ==
    (IF canceled THEN {"canceled"} ELSE {}) \cup
    (IF now >= deadline THEN {"deadline"} ELSE {}) \cup
    (IF ~canceled /\ now < deadline THEN {"none"} ELSE {})

\* What the loop does after a wait: return nil, return an error, or sleep
\* and go round again.
StartStopVerdict_RetryBadRequest(outcome, ctxErr) ==
    IF outcome = "reached" THEN "nil"
    ELSE IF ctxErr = "canceled" THEN "error"
    ELSE IF ctxErr = "deadline" THEN "error"
    ELSE "retry"

StartStopVerdict(outcome, ctxErr) ==
    IF outcome = "reached" THEN "nil"
    ELSE IF ctxErr = "canceled" THEN "error"
    ELSE IF ctxErr = "deadline" THEN "error"
    ELSE IF outcome = "badRequest" THEN "error"
    ELSE "retry"

startStopFrame ==
    <<oldAllocs, oldVmCounts, newMachinesInput, canAvoidDowntime,
      appFullPlatformVersion, ctor, wait, renewal, liveFleet, appLock,
      releaseId, recovery, newMachines, leases, refreshing, leaseDefer, pc,
      err, aborted, newlyCreatedMachines, idx, rbErr, calls, cpLocked,
      cpPlatform, cpMachines, histVars, migrators>>

\* The call: context.WithTimeout, then the switch on action.
StartOrStopCall ==
    /\ machineWait.pc = "idle"
    /\ \E action \in WaitActions, steps \in 1..MaxWaitTimeoutSteps :
          machineWait' =
             [machineWait EXCEPT
                !.action = action,
                !.deadline = machineWait.now + steps * StartStopBackoffMin,
                !.pc = IF WaitOnAction(action) = "" THEN "done" ELSE "loop",
                !.result = IF WaitOnAction(action) = "" THEN "error"
                           ELSE "none"]
    /\ UNCHANGED startStopFrame

\* One round of the loop: flapsClient.Wait, which takes some time, and the
\* tests of its error.  Only a context that is done gives its own error.
StartOrStopWait ==
    /\ machineWait.pc = "loop"
    /\ \E steps \in 0..MaxWaitLatencySteps, outcome \in MachineWaitOutcomes :
         LET end == machineWait.now + steps * StartStopBackoffMin IN
         \E ctxErr \in WaitCtxErrs(machineWait.canceled, end,
                                   machineWait.deadline) :
            /\ outcome = "ctxError" => ctxErr # "none"
            /\ LET verdict == StartStopVerdict(outcome, ctxErr)
               IN  machineWait' =
                     [machineWait EXCEPT
                        !.now = end,
                        !.log = Append(@, [state |-> WaitOnAction(machineWait.action),
                                           at |-> machineWait.now,
                                           end |-> end,
                                           outcome |-> outcome,
                                           ctxErr |-> ctxErr]),
                        !.pc = IF verdict = "retry" THEN "sleep" ELSE "done",
                        !.result = IF verdict = "retry" THEN "none"
                                   ELSE verdict]
    /\ UNCHANGED startStopFrame

\* time.Sleep(b.Duration()): the sleep does not look at the context.
StartOrStopSleep ==
    /\ machineWait.pc = "sleep"
    /\ machineWait' =
          [machineWait EXCEPT
             !.now = @ + StartStopDuration(machineWait.attempt),
             !.attempt = @ + 1,
             !.pc = "loop"]
    /\ UNCHANGED startStopFrame

\* The caller's context is cancelled while the function runs.
StartOrStopCancel ==
    /\ machineWait.pc \in {"loop", "sleep"}
    /\ ~machineWait.canceled
    /\ machineWait' = [machineWait EXCEPT !.canceled = TRUE]
    /\ UNCHANGED startStopFrame

NextStartOrStop ==
    \/ StartOrStopCall
    \/ StartOrStopWait
    \/ StartOrStopSleep
    \/ StartOrStopCancel

\* One call of WaitForStartOrStop.
SpecStartOrStop == InitWait /\ [][NextStartOrStop]_vars

-----------------------------------------------------------------------------
(* Migrate while the legacy fleet changes *)

\* Another actor, or the platform, changes the legacy fleet after the
\* constructor took its snapshot: at any time, once.  beforeLaunch records
\* whether no machine had been launched yet.
FleetChanges ==
    /\ ~liveFleet.changed
    /\ pc # "returned"
    /\ \E allocs \in SeqsUpTo([task : Groups, region : {"ams"}, volumes : {0}],
                               MaxDriftAllocs) \ {oldAllocs} :
          liveFleet' = [changed |-> TRUE, allocs |-> allocs,
                        beforeLaunch |->
                            \A i \in DOMAIN calls : calls[i].op # "launch"]
    /\ UNCHANGED <<oldAllocs, oldVmCounts, newMachinesInput, canAvoidDowntime,
                   appFullPlatformVersion, ctor, wait, renewal, appLock,
                   releaseId, recovery, newMachines, leases, refreshing,
                   leaseDefer, pc, err, aborted, newlyCreatedMachines, idx,
                   rbErr, calls, cpLocked, cpPlatform, cpMachines, histVars,
                   migrators, machineWait>>

NextDrift == Next \/ FleetChanges

InitDrift == Init /\ Len(oldAllocs) <= MaxDriftAllocs

SpecDrift == InitDrift /\ [][NextDrift]_vars

-----------------------------------------------------------------------------
(* Two migrators against one application *)

\* Everything but the two migrators.
duoFrame ==
    <<oldAllocs, oldVmCounts, newMachinesInput, canAvoidDowntime,
      appFullPlatformVersion, ctor, wait, renewal, liveFleet, appLock,
      releaseId, recovery, newMachines, leases, refreshing, leaseDefer, pc,
      err, aborted, newlyCreatedMachines, idx, rbErr, calls, cpLocked,
      cpPlatform, cpMachines, histVars, machineWait>>

DuoCall(p, op, ok) == [by |-> p, op |-> op, ok |-> ok]

\* What a step's remote call and the checkpoint after it come to: the call
\* succeeds, the call fails, or the call succeeds and the checkpoint finds
\* the abort flag set.
DuoOutcomes == {"ok", "error", "aborted"}

\* Where Migrate goes after lockAppForMigration.
DuoAfterLock_Proceed(ok) == "detach"

DuoAfterLock(ok) == IF ok THEN "detach" ELSE "rollback"

\* NewV2PlatformMigrator reads the application; an application already on
\* 'machines' is refused.  Migrate starts by copying the version read.
DuoNew(p) ==
    /\ migrators.pc[p] = "new"
    /\ migrators' =
          IF migrators.platform = "machines"
          THEN [migrators EXCEPT !.pc[p] = "done"]
          ELSE [migrators EXCEPT !.pc[p] = "lock",
                                 !.platformVersion[p] = migrators.platform]
    /\ UNCHANGED duoFrame

\* lockAppForMigration: the control plane grants the lock only while nobody
\* holds it; the call can fail for other reasons too.
DuoLock(p) ==
    /\ migrators.pc[p] = "lock"
    /\ \E r \in DuoOutcomes :
         LET granted == r # "error" /\ migrators.holder = 0 IN
         migrators' =
           [migrators EXCEPT
              !.pc[p] = IF granted /\ r = "aborted" THEN "rollback"
                        ELSE DuoAfterLock(granted),
              !.appLocked[p] = granted,
              !.holder = IF granted THEN p ELSE @,
              !.log = Append(@, DuoCall(p, "lockApp", granted))]
    /\ UNCHANGED duoFrame

\* updateAppPlatformVersion("detached").
DuoDetach(p) ==
    /\ migrators.pc[p] = "detach"
    /\ \E r \in DuoOutcomes :
         migrators' =
           [migrators EXCEPT
              !.pc[p] = IF r = "ok" THEN "release" ELSE "rollback",
              !.platformVersion[p] = IF r = "error" THEN @ ELSE "detached",
              !.platform = IF r = "error" THEN @ ELSE "detached",
              !.log = Append(@, DuoCall(p, "detach", r # "error"))]
    /\ UNCHANGED duoFrame

\* createRelease.
DuoRelease(p) ==
    /\ migrators.pc[p] = "release"
    /\ \E r \in DuoOutcomes :
         migrators' =
           [migrators EXCEPT
              !.pc[p] = IF r = "ok" THEN "create" ELSE "rollback",
              !.log = Append(@, DuoCall(p, "createRelease", r # "error"))]
    /\ UNCHANGED duoFrame

\* createMachines, for a plan of one machine.
DuoCreate(p) ==
    /\ migrators.pc[p] = "create"
    /\ \E r \in DuoOutcomes :
         migrators' =
           [migrators EXCEPT
              !.pc[p] = IF r = "ok" THEN "acquire" ELSE "rollback",
              !.machinesCreated[p] = r # "error",
              !.log = Append(@, DuoCall(p, "launch", r # "error"))]
    /\ UNCHANGED duoFrame

\* AcquireLeases.
DuoAcquire(p) ==
    /\ migrators.pc[p] = "acquire"
    /\ \E r \in DuoOutcomes :
         migrators' =
           [migrators EXCEPT
              !.pc[p] = IF r = "ok" THEN "unlock" ELSE "rollback",
              !.log = Append(@, DuoCall(p, "acquireLease", r # "error"))]
    /\ UNCHANGED duoFrame

\* unlockApp of the forward path.
DuoUnlock(p) ==
    /\ migrators.pc[p] = "unlock"
    /\ \E r \in DuoOutcomes :
         migrators' =
           [migrators EXCEPT
              !.pc[p] = IF r = "ok" THEN "cutover" ELSE "rollback",
              !.appLocked[p] = IF r = "error" THEN @ ELSE FALSE,
              !.holder = IF r # "error" /\ @ = p THEN 0 ELSE @,
              !.log = Append(@, DuoCall(p, "unlockApp", r # "error"))]
    /\ UNCHANGED duoFrame

\* deployApp, scaleNomadToZero and updateAppPlatformVersion("machines"),
\* taken together: they come after the unlock.
DuoCutover(p) ==
    /\ migrators.pc[p] = "cutover"
    /\ \E ok \in BOOLEAN :
         migrators' =
           [migrators EXCEPT
              !.pc[p] = IF ok THEN "done" ELSE "rollback",
              !.platform = IF ok THEN "machines" ELSE @,
              !.log = Append(@, DuoCall(p, "cutover", ok))]
    /\ UNCHANGED duoFrame

\* rollback, taken whole: destroy the machine created, set the marker back
\* when the recorded version is not 'nomad', unlock when appLocked, resume.
DuoRollback(p) ==
    /\ migrators.pc[p] = "rollback"
    /\ \E destroyed \in BOOLEAN, marked \in BOOLEAN, unlocked \in BOOLEAN :
         LET destroys == IF migrators.machinesCreated[p]
                         THEN <<DuoCall(p, "destroy", destroyed)>> ELSE <<>>
             goesOn   == migrators.machinesCreated[p] => destroyed
             marks    == IF goesOn /\ migrators.platformVersion[p] # "nomad"
                         THEN <<DuoCall(p, "setNomad", marked)>> ELSE <<>>
             unlocks  == IF migrators.appLocked[p]
                         THEN <<DuoCall(p, "unlockApp", unlocked)>> ELSE <<>>
         IN  migrators' =
               [migrators EXCEPT
                  !.pc[p] = "done",
                  !.platform = IF marks # <<>> /\ marked THEN "nomad" ELSE @,
                  !.appLocked[p] = IF unlocked THEN FALSE ELSE @,
                  !.holder = IF unlocks # <<>> /\ unlocked /\ @ = p
                             THEN 0 ELSE @,
                  !.log = @ \o destroys \o marks \o unlocks \o
                          <<DuoCall(p, "resumeApp", TRUE)>>]
    /\ UNCHANGED duoFrame

NextDuo ==
    \E p \in Migrators :
        \/ DuoNew(p)
        \/ DuoLock(p)
        \/ DuoDetach(p)
        \/ DuoRelease(p)
        \/ DuoCreate(p)
        \/ DuoAcquire(p)
        \/ DuoUnlock(p)
        \/ DuoCutover(p)
        \/ DuoRollback(p)

InitDuo ==
    /\ Init
    /\ oldAllocs = <<>>
    /\ appFullPlatformVersion = "nomad"

SpecDuo == InitDuo /\ [][NextDuo]_vars

-----------------------------------------------------------------------------
(* Migrate with the calls of the background lease refresh *)

\* The renewal calls of one round of the refresh: one per held lease, in the
\* order of the set; those in `failed` fail.
RenewCalls(failed) ==
    LET held == SelectSeq(newMachines, LAMBDA mach : mach.id \in leases)
    IN  [i \in DOMAIN held |->
            Call("renewLease", "refresh", held[i].id, "", "", {},
                 held[i].id \notin failed)]

\* The background refresh wakes up, concurrently with Migrate, and renews
\* every lease; a failure is logged.
BackgroundRenew ==
    /\ refreshing
    /\ Cardinality({i \in DOMAIN calls : calls[i].op = "renewLease"})
          < MaxRenewRounds * Cardinality(leases)
    /\ \E failed \in ReleaseFailures :
          calls' = calls \o RenewCalls(failed)
    /\ UNCHANGED <<planVars, appLock, releaseId, recovery, newMachines, leases,
                   refreshing, leaseDefer, pc, err, aborted,
                   newlyCreatedMachines, idx, rbErr, cpLocked, cpPlatform,
                   cpMachines, histVars>>

NextRenew == Next \/ BackgroundRenew

InitRenew == Init /\ Len(oldAllocs) <= MaxRenewAllocs

\* Migrate and the background refresh.
SpecRenew == InitRenew /\ [][NextRenew]_vars

TypeOK ==
    /\ pc \in ForwardSteps \cup Checkpoints \cup
              {"defer_release", "defer_recovery", "rb_destroy", "rb_platform",
               "rb_counts", "rb_unlock", "rb_resume", "returned",
               "notStarted"}
    /\ err \in {"nil", "error", "aborted"}
    /\ rbErr \in {"nil", "error"}
    /\ aborted \in BOOLEAN
    /\ Len(oldAllocs) <= MaxAllocs
    /\ \A i \in DOMAIN oldAllocs : oldAllocs[i] \in AllocStatuses
    /\ Len(newMachinesInput) <= Len(oldAllocs)
    /\ ctor.pc \in {"getApp", "checkPlatform", "gather", "validate", "plan",
                    "configPath", "confirm", "done"}
    /\ ctor.result \in {"none", "error", "panic", "migrator"}
    /\ ctor.platform \in AllPlatforms \cup {""}
    /\ ctor.procs \subseteq Groups
    /\ ctor.confirm \in {"none", "skipped", "yes", "no", "error"}
    /\ wait.pc \in {"idle", "loop", "select", "done"}
    /\ renewal.pc \in {"idle", "acquiring", "running", "stopped"}
    /\ renewal.now \in 0..(MaxStartDelay + LeaseWindow)
    /\ Len(renewal.last) <= MaxLeases
    /\ wait.result \in {"none", "nil", "error", "timeout"}
    /\ wait.now \in 0..(HardTimeout + BackoffMax + MaxPollLatency)
    /\ \A i \in DOMAIN wait.log : wait.log[i].outcome \in PollOutcomes

-----------------------------------------------------------------------------
(* Vocabulary of the properties *)

Returned == pc = "returned"

\* Positions in the call log of the calls of operation op.
CallsOf(op) == {i \in DOMAIN calls : calls[i].op = op}

\* Positions of the calls of operation op that succeeded.
OkCallsOf(op) == {i \in CallsOf(op) : calls[i].ok}

\* Positions of the calls rollback issued.
RollbackCalls == {i \in DOMAIN calls : calls[i].by = "rollback"}

\* Ids of the machines rollback issued a Destroy for.
DestroyIssued == {calls[i].id : i \in CallsOf("destroy")}

\* Ids of the machines recorded in the tracker.
Recorded == {recovery.machinesCreated[i].id :
                i \in DOMAIN recovery.machinesCreated}

\* The forward steps from the lock to the platform-marker switch.
StepsBeforeNoReturn == ForwardSteps \ {"write"}

-----------------------------------------------------------------------------
(* C1 *)

\* C1: when a forward step from the lock through the switch to "machines"
\* returned an error, or a checkpoint observed the abort flag, rollback has been
\* invoked exactly once when Migrate returns; rollback is never invoked a
\* second time, whether or not it failed.
C1_RollbackExactlyOnce ==
    /\ rollbackRuns <= 1
    /\ (Returned /\ (failedAt \in StepsBeforeNoReturn \/ abortSeenAt # "none"))
          => /\ rollbackRuns = 1
             /\ Cardinality(CallsOf("resumeApp")) = 1

\* A run in which the switch to "machines" failed, rollback ran and failed.
C1_Witness ==
    /\ Returned
    /\ failedAt = "switch"
    /\ rbErr = "error"
    /\ rollbackRuns = 1

-----------------------------------------------------------------------------
(* C2 *)

\* C2: when createMachines failed on the k-th launch, the tracker holds the
\* k-1 machines launched before, in input order, no launch was issued for a
\* later input, and rollback issued a Destroy for exactly those k-1 machines.
C2_PrefixCreatedAndDestroyed ==
    (Returned /\ failedAt = "create") =>
        LET k == Cardinality(CallsOf("launch"))
        IN  /\ k >= 1
            /\ recovery.machinesCreated = [i \in 1..(k - 1) |-> LaunchedMachine(i)]
            /\ \A i \in CallsOf("launch") :
                  calls[i].ok = (calls[i].id # k) /\ calls[i].id \in 1..k
            /\ DestroyIssued = 1..(k - 1)

-----------------------------------------------------------------------------
(* C3 *)

\* C3: rollback attempts a Destroy for every recorded machine even when an
\* earlier Destroy failed, and returns an error when one of them failed.
C3_DestroyContinuesAfterFailure ==
    (Returned /\ rollbackRuns = 1) =>
        /\ DestroyIssued = Recorded
        /\ (CallsOf("destroy") # OkCallsOf("destroy")) => rbErr = "error"

-----------------------------------------------------------------------------
(* C4 *)

\* C4: the lock is successfully released at most once; rollback issues an
\* unlock only when the lock was acquired and no unlock has succeeded before;
\* recovery.appLocked is true exactly when the lock was acquired and no unlock
\* call has succeeded since, which is also what the control plane holds.
C4_LockReleasedAtMostOnce ==
    /\ Cardinality(OkCallsOf("unlockApp")) <= 1
    /\ recovery.appLocked =
          (\E i \in OkCallsOf("lockApp") :
              \A j \in OkCallsOf("unlockApp") : j < i)
    /\ recovery.appLocked = cpLocked
    /\ \A i \in CallsOf("unlockApp") :
          calls[i].by = "rollback" =>
              /\ \E j \in OkCallsOf("lockApp") : j < i
              /\ \A j \in OkCallsOf("unlockApp") : j >= i

\* A run in which the forward unlock succeeded, a later step failed and
\* rollback ran without issuing an unlock.
C4_Witness ==
    /\ Returned
    /\ rollbackRuns = 1
    /\ \E i \in OkCallsOf("unlockApp") : calls[i].by = "migrate"
    /\ Cardinality(CallsOf("unlockApp")) = 1

-----------------------------------------------------------------------------
(* C5 *)

\* C5: the abort flag acts only through a checkpoint.  While it is set but no
\* checkpoint has evaluated it, Migrate's result is not the abort error; once
\* a checkpoint has evaluated it set, Migrate is past its forward path, no
\* forward call is issued any more, the result is the abort error, and
\* rollback has run when Migrate returns.  A createMachines in flight when the
\* flag is set still reaches its checkpoint with every launch issued.
C5_AbortOnlyAtCheckpoints ==
    /\ (abortSeenAt = "none") => err # "aborted"
    /\ (abortSeenAt # "none") =>
          /\ aborted
          /\ err = "aborted"
          /\ pc \notin ForwardSteps \cup Checkpoints
          /\ \A i \in DOMAIN calls :
                i > abortSeenIdx => calls[i].by # "migrate"
          /\ Returned => rollbackRuns = 1
    /\ (abortSetAt = "create" /\ abortSeenAt = "cp_create") =>
          Cardinality(OkCallsOf("launch")) = Len(newMachinesInput)

\* The flag was set while createMachines was launching two machines, was
\* observed at the checkpoint that follows, and Migrate has returned.
C5_Witness ==
    /\ Returned
    /\ abortSetAt = "create"
    /\ abortSeenAt = "cp_create"
    /\ Len(recovery.machinesCreated) = 2
    /\ err = "aborted"

-----------------------------------------------------------------------------
(* C6 *)

\* C6: after an abort observed at the checkpoint between createMachines and
\* AcquireLeases, Migrate returns the abort error, no lease was requested,
\* rollback issued a Destroy for every created machine, an unlock was issued
\* and a resume was attempted.
C6_AbortAfterCreate ==
    (Returned /\ abortSeenAt = "cp_create") =>
        /\ err = "aborted"
        /\ CallsOf("acquireLease") = {}
        /\ DestroyIssued = {newMachines[i].id : i \in DOMAIN newMachines}
        /\ \E i \in CallsOf("unlockApp") : calls[i].by = "rollback"
        /\ CallsOf("resumeApp") # {}

-----------------------------------------------------------------------------
(* C7 *)

\* C7: after an abort observed at any checkpoint, whatever the Destroy calls
\* returned, the application is neither locked nor detached when Migrate
\* returns, provided every unlock and set-platform-version call succeeded.
C7_AbortLeavesUnlockedNotDetached ==
    (/\ Returned
     /\ abortSeenAt # "none"
     /\ CallsOf("unlockApp") = OkCallsOf("unlockApp")
     /\ CallsOf("setPlatformVersion") = OkCallsOf("setPlatformVersion"))
        => /\ ~cpLocked
           /\ cpPlatform # "detached"

-----------------------------------------------------------------------------
(* C8 *)

\* C8: when the config file write fails (the marker is "machines" by then),
\* Migrate returns that error and rollback does not run: after the write no
\* destroy, set-platform-version, set-count, unlock or resume call is issued.
C8_NoRollbackAfterWriteFails ==
    (failedAt = "write") =>
        /\ err = "error"
        /\ cpPlatform = "machines"
        /\ rollbackRuns = 0
        /\ RollbackCalls = {}
        /\ pc \in {"defer_release", "defer_recovery", "returned"}
        /\ \A w \in CallsOf("writeToDisk") : \A i \in DOMAIN calls :
              i > w => calls[i].op \notin {"destroy", "setPlatformVersion",
                                           "setVMCount", "unlockApp",
                                           "resumeApp"}

\* Migrate has returned after a failed write, with two machines created.
C8_Witness ==
    /\ Returned
    /\ failedAt = "write"
    /\ Len(newMachines) = 2

-----------------------------------------------------------------------------
(* C9 *)

\* The remote effects the claim lists, in the order they were issued.
ListedEffects ==
    LET listed(c) ==
            \/ c.op \in {"lockApp", "launch", "acquireLease",
                         "deployMachinesApp", "setVMCount", "writeToDisk"}
            \/ c.op = "setPlatformVersion" /\ c.val = "machines"
        sel == SelectSeq(calls, listed)
    IN  [i \in DOMAIN sel |-> <<sel[i].op, sel[i].id, sel[i].counts>>]

\* The effects of a migration of the fleet, with `scales` scale requests.
ExpectedEffects(scales) ==
    LET n == Len(oldAllocs)
        zero == {<<oldAllocs[i].task, 0>> : i \in 1..n}
    IN  <<<<"lockApp", 0, {}>>>> \o
        [i \in 1..n |-> <<"launch", i, {}>>] \o
        [i \in 1..n |-> <<"acquireLease", i, {}>>] \o
        <<<<"deployMachinesApp", 0, {}>>>> \o
        [i \in 1..scales |-> <<"setVMCount", 0, zero>>] \o
        <<<<"setPlatformVersion", 0, {}>>, <<"writeToDisk", 0, {}>>>>

\* C9 as stated: every run that ends in Done issued, in this order and once
\* each, the lock, the N launches in plan order, the N lease requests, the
\* cutover trigger, one scale request with every count 0, the switch to
\* "machines" and the config write.
C9_DoneEffectsInOrder ==
    (Returned /\ err = "nil") => ListedEffects = ExpectedEffects(1)

\* C9 amended: as above, with the scale request issued once when the fleet has
\* at least one allocation and not at all when it has none.
C9_DoneEffectsInOrderAmended ==
    (Returned /\ err = "nil") =>
        ListedEffects = ExpectedEffects(IF Len(oldAllocs) >= 1 THEN 1 ELSE 0)

\* Done for the fleet web, web, worker.
C9_Witness ==
    /\ Returned
    /\ err = "nil"
    /\ [i \in DOMAIN oldAllocs |-> oldAllocs[i].task] =
          <<"web", "web", "worker">>

-----------------------------------------------------------------------------
(* C10 *)

\* C10: once DeployMachinesApp has reported a failure, no scale request and
\* no switch to "machines" is issued, and Migrate returns an error after
\* rollback has run.
C10_FailedCutoverRollsBack ==
    \A d \in CallsOf("deployMachinesApp") :
        ~calls[d].ok =>
            /\ \A i \in DOMAIN calls :
                  (i > d /\ calls[i].by = "migrate") =>
                      /\ calls[i].op # "setVMCount"
                      /\ ~(calls[i].op = "setPlatformVersion"
                            /\ calls[i].val = "machines")
            /\ Returned => (err # "nil" /\ rollbackRuns = 1)

-----------------------------------------------------------------------------
(* C11 *)

\* Ids of the machines of the machine set.
MachineSetIds == {newMachines[i].id : i \in DOMAIN newMachines}

\* C11: from the successful AcquireLeases until deployApp has returned, the
\* lease of every created machine is held: no lease is released before the
\* cutover trigger was called.
C11_LeasesHeldUntilCutoverReturns ==
    /\ pc \in {"cp_acquire", "unlock", "cp_unlock", "releaseLeases", "deploy"}
          => leases = MachineSetIds
    /\ \A r \in CallsOf("releaseLease") :
          calls[r].by = "migrate" =>
              \E d \in CallsOf("newMachineDeployment") : d < r

-----------------------------------------------------------------------------
(* C12 *)

\* C12: when the control plane accepted a scale-to-zero request and rollback
\* ran afterwards (its destroy and set-platform-version calls succeeding),
\* rollback requested the counts of the snapshot.
C12_RestoreAfterAcceptedScale ==
    (/\ Returned
     /\ rollbackRuns = 1
     /\ \E i \in OkCallsOf("setVMCount") : calls[i].by = "migrate"
     /\ \A i \in RollbackCalls :
           calls[i].op \in {"destroy", "setPlatformVersion"} => calls[i].ok)
        => \E j \in CallsOf("setVMCount") :
              /\ calls[j].by = "rollback"
              /\ calls[j].counts = RestoreGroupCounts(oldVmCounts)

-----------------------------------------------------------------------------
(* C13 *)

\* C13: every count restoration rollback requests carries a lock token that
\* is not empty and has not been released.
C13_RestoreCarriesValidLock ==
    \A i \in CallsOf("setVMCount") :
        calls[i].by = "rollback" =>
            /\ calls[i].lock # ""
            /\ \A j \in OkCallsOf("unlockApp") : j > i

-----------------------------------------------------------------------------
(* C14 *)

\* Positions of the calls of the second invocation of rollback: those after
\* the resume that ended the first.
SecondRollbackCalls ==
    {i \in DOMAIN calls : \E r \in CallsOf("resumeApp") : r < i}

\* C14: a second invocation of rollback in which nothing fails but calls that
\* meet a machine already destroyed (or the unlock and resume calls, whose
\* errors are only printed) returns no error.
C14_RollbackIdempotent ==
    (/\ Returned
     /\ rollbackRuns = 2
     /\ \A i \in SecondRollbackCalls :
           ~calls[i].ok =>
               \/ calls[i].op = "destroy" /\ calls[i].val = "already destroyed"
               \/ calls[i].op \in {"unlockApp", "resumeApp"})
        => rbErr = "nil"

-----------------------------------------------------------------------------
(* C15 .. C19: the constructor *)

\* The constructor has returned or panicked.
CtorEnded == ctor.result # "none"

\* The constructor returned an error and no migrator, and Migrate has not been
\* invoked, so no mutating remote call has been issued.
CtorRefused ==
    /\ ctor.result = "error"
    /\ pc = "notStarted"
    /\ calls = <<>>

\* C15: if the application's autoscaling configuration is enabled, the
\* constructor returns an error and no migrator, and no mutating remote call is
\* issued.
C15_AutoscalingRefused ==
    (CtorEnded /\ ctor.fetched /\ ctor.autoscale) => CtorRefused

\* C16: if the config has a mounts section or an allocation has a volume
\* attached, the constructor returns an error and no migrator, whatever the
\* other inputs are, and no mutating remote call is issued.
C16_VolumesRefused ==
    (/\ CtorEnded
     /\ ctor.fetched
     /\ ValidateVolumes(ctor.mounts, oldAllocs) = "error") => CtorRefused

\* C17: if the task name of an allocation is not a key of the process
\* configuration, the constructor fails in validation, before any launch input
\* is derived, whatever the other inputs are, and no mutating remote call is
\* issued.
C17_UnknownGroupRefused ==
    (/\ ctor.fetched
     /\ ValidateProcessGroupsOnAllocs(oldAllocs, ctor.procs) = "error")
    => /\ ctor.pc \in {"validate", "done"}
       /\ newMachinesInput = <<>>
       /\ CtorEnded => CtorRefused /\ ctor.cause = "validate"

\* C18: if the platform version read by the constructor is "machines", the
\* constructor returns an error and no migrator at the platform test: nothing
\* is read for validation, no plan is built and no mutating remote call is
\* issued.
C18_MachinesPlatformRefused ==
    ctor.platform = "machines"
    => /\ ctor.pc \in {"checkPlatform", "done"}
       /\ ~ctor.fetched
       /\ newMachinesInput = <<>>
       /\ pc = "notStarted"
       /\ calls = <<>>
       /\ ctor.pc = "done" => ctor.result = "error" /\ ctor.cause = "platform"

C18_Witness ==
    /\ ctor.platform = "machines"
    /\ ctor.pc = "done"
    /\ ctor.result = "error"

\* C19: when the constructor returns a migrator, newMachinesInput has exactly
\* one launch input per allocation of the snapshot, in the snapshot's order,
\* with the allocation's region and with the allocation's task name as its
\* process group.
C19_PlanMirrorsSnapshot ==
    ctor.result = "migrator"
    => /\ Len(newMachinesInput) = Len(oldAllocs)
       /\ \A i \in DOMAIN oldAllocs :
             /\ newMachinesInput[i].region = oldAllocs[i].region
             /\ newMachinesInput[i].group = oldAllocs[i].task

C19_Witness ==
    /\ ctor.result = "migrator"
    /\ ~ctor.autoscale
    /\ Len(newMachinesInput) = 2
    /\ newMachinesInput[1].region # newMachinesInput[2].region
    /\ newMachinesInput[1].group = "worker"
    /\ newMachinesInput[2].group = "web"

-----------------------------------------------------------------------------
(* C20 *)

\* The answers GetAllocations gave to the wait, in order.
PollAnswers == [i \in DOMAIN wait.log |-> wait.log[i].outcome]

\* C20: while waitForAllocsZero polls, only the answer "allocations still
\* exist" is followed by another query: the first query that returns an error
\* ends the wait with that error, the first query that returns no allocation
\* ends it with success, and no query is issued after either.
C20_OnlyNonzeroRetried ==
    LET n == Len(PollAnswers)
    IN  /\ \A i \in 1..(n - 1) : PollAnswers[i] = "nonzero"
        /\ (n > 0 /\ PollAnswers[n] = "error")
              => wait.pc = "done" /\ wait.result = "error"
        /\ (n > 0 /\ PollAnswers[n] = "zero")
              => wait.pc = "done" /\ wait.result = "nil"
        /\ wait.result = "error" => n > 0 /\ PollAnswers[n] = "error"
        /\ wait.result = "nil" => n > 0 /\ PollAnswers[n] = "zero"

C20_Witness ==
    /\ wait.pc = "done"
    /\ wait.result = "error"
    /\ PollAnswers = <<"nonzero", "nonzero", "error">>

-----------------------------------------------------------------------------
(* C21 *)

\* Positions in the log of the polls issued once the hard timeout had elapsed.
PollsAfterDeadline ==
    {i \in DOMAIN wait.log :
        wait.pc # "idle" /\ wait.log[i].at >= wait.deadline}

\* No query has found the allocations gone and none has failed.
ConditionNeverMet == \A i \in DOMAIN PollAnswers : PollAnswers[i] = "nonzero"

\* The timeout error is never returned before the hard timeout has elapsed,
\* and at most one poll is issued once it has.
TimeoutNotEarly ==
    /\ wait.result = "timeout" => wait.now >= wait.deadline
    /\ Cardinality(PollsAfterDeadline) <= 1

\* C21: when the allocations never reach zero and no query fails,
\* waitForAllocsZero returns the timeout error; it never returns it before the
\* hard timeout has elapsed, and once the hard timeout has elapsed it polls at
\* most once more before returning.
C21_TimeoutAtHardTimeout ==
    /\ []TimeoutNotEarly
    /\ []ConditionNeverMet => <>(wait.pc = "done" /\ wait.result = "timeout")

C21_Witness ==
    /\ wait.pc = "done"
    /\ wait.result = "timeout"
    /\ ConditionNeverMet
    /\ Cardinality(PollsAfterDeadline) = 1

-----------------------------------------------------------------------------
(* C22 *)

\* Time since the last successful acquisition or renewal of a lease.
LeaseAge(i) == renewal.now - renewal.last[i]

\* The renewal has run over a window longer than the lease's duration.
LongWindow ==
    /\ renewal.pc \in {"running", "stopped"}
    /\ renewal.now - renewal.start > LeaseTimeout

\* Over a window longer than the lease's duration every lease is renewed at
\* least three times.
RenewedThrice ==
    LongWindow => \A i \in DOMAIN renewal.count : renewal.count[i] >= 3

-----------------------------------------------------------------------------
(* C23 *)

\* The ReleaseLeases that precedes deployApp has returned.
FirstReleaseReturned ==
    pc = "deploy" \/ CallsOf("newMachineDeployment") # {}

\* Migrate is past its deferred ReleaseLeases.
DeferredReleaseReturned ==
    /\ leaseDefer
    /\ pc \in {"defer_recovery", "rb_destroy", "rb_platform", "rb_counts",
               "rb_unlock", "rb_resume", "returned"}

\* C23: once the ReleaseLeases that precedes deployApp has returned, the
\* background refresh is stopped and renews no lease any more; the deferred
\* ReleaseLeases that follows it finds no lease to release, so none of its
\* release calls can fail, and it leaves no lease held.
C23_ReleaseStopsRefreshOnce ==
    /\ FirstReleaseReturned =>
          /\ ~refreshing
          /\ leases = {}
          /\ \A i \in CallsOf("renewLease") :
                \A j \in CallsOf("newMachineDeployment") : i < j
          /\ \A i \in CallsOf("releaseLease") : calls[i].by = "migrate"
    /\ DeferredReleaseReturned => ~refreshing /\ leases = {}

C23_Witness ==
    /\ pc = "returned"
    /\ err = "nil"
    /\ CallsOf("renewLease") # {}
    /\ CallsOf("releaseLease") # {}
    /\ CallsOf("deployMachinesApp") # {}

-----------------------------------------------------------------------------
(* C24 *)

\* C24: the launch input of every Launch call of createMachines carries, as
\* its release metadata, the id of the release createRelease registered in the
\* step before.
C24_MachinesCarryRelease ==
    \A i \in CallsOf("launch") :
        /\ releaseId # ""
        /\ newMachinesInput[calls[i].id].releaseId = releaseId

-----------------------------------------------------------------------------
(* C25 *)

\* Ids of the machines whose Launch call returned success.
Launched == {calls[i].id : i \in OkCallsOf("launch")}

\* C25: every machine recorded in recovery.machinesCreated is the result of a
\* Launch call that returned success, and outside createMachines, so at every
\* checkpoint that follows it, the tracker holds every machine whose Launch
\* succeeded.
C25_TrackerHoldsLaunched ==
    /\ Recorded \subseteq Launched
    /\ pc # "create" => Recorded = Launched

C25_Witness ==
    /\ failedAt = "create"
    /\ pc = "rb_destroy"
    /\ Recorded # {}
    /\ \E i \in CallsOf("launch") : ~calls[i].ok

-----------------------------------------------------------------------------
(* C26 *)

\* The control-plane calls that change the application or its machines.
MutatingOps == {"setPlatformVersion", "setVMCount", "createRelease", "launch",
                "destroy"}

\* A lockApp call succeeded before call i.
LockedBefore(i) ==
    \E j \in 1..(i - 1) : calls[j].op = "lockApp" /\ calls[j].ok

\* The lock is held when call i is issued: acquired before it and not
\* released by a successful unlockApp since.
LockHeldAt(i) ==
    \E j \in 1..(i - 1) :
        /\ calls[j].op = "lockApp" /\ calls[j].ok
        /\ \A k \in (j + 1)..(i - 1) :
              ~(calls[k].op = "unlockApp" /\ calls[k].ok)

\* The token lockApp answers with.
LockToken == "lock1"

\* C26: no mutating control-plane call is issued before lockApp has succeeded,
\* and every set-platform-version and set-count call issued while the lock is
\* held, by Migrate or by rollback, carries the lock's token.
C26_MutationsUnderLock ==
    \A i \in DOMAIN calls :
        calls[i].op \in MutatingOps =>
            /\ LockedBefore(i)
            /\ (/\ calls[i].op \in {"setPlatformVersion", "setVMCount"}
                /\ LockHeldAt(i)) => calls[i].lock = LockToken

-----------------------------------------------------------------------------
(* C27 *)

\* AcquireLeases has been invoked by Migrate.
AcquireInvoked == leaseDefer

\* Every lease acquired before the Destroy call d was released before it.
ReleasedBefore(d) ==
    \A a \in OkCallsOf("acquireLease") :
        a < d => \E r \in CallsOf("releaseLease") :
                    /\ calls[r].id = calls[a].id
                    /\ a < r
                    /\ r < d

\* C27: on every path on which AcquireLeases was invoked, whether or not it
\* acquired every lease, ReleaseLeases has run when rollback starts and when
\* Migrate returns: no lease is held, the refresh is stopped, and every lease
\* acquired was released before rollback's first Destroy.
C27_ReleaseBeforeRollbackAndReturn ==
    /\ (/\ AcquireInvoked
        /\ pc \in {"defer_recovery", "rb_destroy", "rb_platform", "rb_counts",
                   "rb_unlock", "rb_resume", "returned"})
          => leases = {} /\ ~refreshing
    /\ \A d \in CallsOf("destroy") : ReleasedBefore(d)

C27_Witness ==
    /\ pc = "returned"
    /\ failedAt = "acquire"
    /\ OkCallsOf("acquireLease") # {}
    /\ CallsOf("destroy") # {}

-----------------------------------------------------------------------------
(* C28 *)

\* The calls that failed.
FailedCalls == {i \in DOMAIN calls : ~calls[i].ok}

\* Nothing went wrong but releases and renewals of leases: every other call
\* succeeded and no abort was observed.
OnlyLeaseFailures ==
    /\ \A i \in FailedCalls : calls[i].op \in {"releaseLease", "renewLease"}
    /\ abortSeenAt = "none"

\* C28: a failed lease release or renewal is never escalated: when nothing
\* else fails, Migrate's error stays nil, rollback does not run, and Migrate
\* goes on through the steps that follow, down to the config file's write.
C28_LeaseFailuresNotEscalated ==
    /\ failedAt # "releaseLeases"
    /\ OnlyLeaseFailures =>
          /\ err = "nil"
          /\ rollbackRuns = 0
          /\ pc = "returned" => OkCallsOf("writeToDisk") # {}

C28_Witness ==
    /\ pc = "returned"
    /\ err = "nil"
    /\ OnlyLeaseFailures
    /\ \E i \in FailedCalls : calls[i].op = "renewLease"
    /\ \E i \in FailedCalls :
          calls[i].op = "releaseLease" /\ calls[i].by = "migrate"
    /\ OkCallsOf("writeToDisk") # {}

-----------------------------------------------------------------------------
(* C29 *)

\* Positions of the calls of operation op issued by rollback.
RollbackCallsOf(op) == {i \in RollbackCalls : calls[i].op = op}

\* The lock is recorded as held when rollback's deferred function runs: it
\* was acquired and Migrate's own unlockApp has not succeeded.
LockRecordedAtRollback ==
    /\ OkCallsOf("lockApp") # {}
    /\ \A i \in OkCallsOf("unlockApp") : calls[i].by # "migrate"

\* The calls of rollback whose failure rollback returns.
RollbackBodyFailed ==
    \E i \in RollbackCalls :
        /\ calls[i].op \in {"destroy", "setPlatformVersion", "setVMCount"}
        /\ ~calls[i].ok

\* C29: every rollback, whatever failed in it, ends with an unlockApp exactly
\* when the lock is recorded as held, followed by exactly one ResumeApp; a
\* failed unlock or resume leaves rollback's result alone, and an answer "not
\* suspended" of ResumeApp is not printed.
C29_RollbackEndsWithUnlockAndResume ==
    /\ pc \in {"rb_destroy", "rb_platform", "rb_counts", "rb_unlock"}
          => RollbackCallsOf("unlockApp") = {} /\ RollbackCallsOf("resumeApp") = {}
    /\ pc = "rb_resume" => RollbackCallsOf("resumeApp") = {}
    /\ (pc = "returned" /\ rollbackRuns = 1) =>
          /\ RollbackCallsOf("resumeApp") = {Len(calls)}
          /\ IF LockRecordedAtRollback
                THEN RollbackCallsOf("unlockApp") = {Len(calls) - 1}
                ELSE RollbackCallsOf("unlockApp") = {}
          /\ rbErr = "error" <=> RollbackBodyFailed
          /\ calls[Len(calls)].val = "not suspended"
                => ~ResumeReported(calls[Len(calls)].val)

C29_Witness ==
    /\ pc = "returned"
    /\ rollbackRuns = 1
    /\ rbErr = "error"
    /\ \E i \in RollbackCallsOf("unlockApp") : ~calls[i].ok
    /\ calls[Len(calls)].op = "resumeApp"
    /\ calls[Len(calls)].val = "not suspended"

-----------------------------------------------------------------------------
(* C30 *)

\* Migrate has changed the platform marker: to "detached" or to "machines".
MarkerChangedAway ==
    \E i \in OkCallsOf("setPlatformVersion") : calls[i].by = "migrate"

\* The value of the last successful write of the platform marker.
LastMarkerWritten ==
    LET w == OkCallsOf("setPlatformVersion")
    IN  calls[CHOOSE i \in w : \A j \in w : j <= i].val

\* C30: when rollback has run after a successful change of the platform
\* marker and has returned nil, the last value written to the marker is
\* "nomad"; when the application's marker was "nomad" and no change of it has
\* succeeded, rollback issues no platform-marker call.
C30_MarkerRestored ==
    /\ (/\ pc = "returned"
        /\ rollbackRuns = 1
        /\ rbErr = "nil"
        /\ MarkerChangedAway)
          => LastMarkerWritten = "nomad" /\ cpPlatform = "nomad"
    /\ (appFullPlatformVersion = "nomad" /\ ~MarkerChangedAway)
          => RollbackCallsOf("setPlatformVersion") = {}

C30_Witness ==
    /\ pc = "returned"
    /\ rollbackRuns = 1
    /\ rbErr = "nil"
    /\ MarkerChangedAway
    /\ appFullPlatformVersion = "nomad"
    /\ cpPlatform = "nomad"

-----------------------------------------------------------------------------
(* C31 *)

\* Positions of the calls of scaleNomadToZero: its count request and its wait.
ScaleToZeroCalls ==
    {i \in DOMAIN calls :
        /\ calls[i].by = "migrate"
        /\ calls[i].op \in {"setVMCount", "waitForAllocsZero"}}

\* Call i is part of a scaleNomadToZero that directly follows the lock.
RightAfterLock(i) ==
    /\ \A j \in 1..(i - 1) :
          calls[j].op \in {"lockApp", "setVMCount", "waitForAllocsZero"}
    /\ \E j \in 1..(i - 1) : calls[j].op = "lockApp" /\ calls[j].ok

\* Before call i every machine of the plan was launched and the cutover
\* trigger was called.
AfterCutover(i) ==
    /\ Cardinality({j \in OkCallsOf("launch") : j < i}) = Len(newMachinesInput)
    /\ \E j \in CallsOf("deployMachinesApp") : j < i

\* C31: Migrate runs scaleNomadToZero at most once: with canAvoidDowntime
\* false, right after the lock, before the platform is detached and before any
\* machine is created, and not again after the cutover; with canAvoidDowntime
\* true, only after every machine was created and the cutover trigger returned.
C31_ScaleToZeroOnce ==
    /\ Cardinality(ScaleToZeroCalls \cap CallsOf("setVMCount")) <= 1
    /\ Cardinality(ScaleToZeroCalls \cap CallsOf("waitForAllocsZero")) <= 1
    /\ \A i \in ScaleToZeroCalls :
          IF canAvoidDowntime THEN AfterCutover(i) ELSE RightAfterLock(i)

C31_Witness ==
    /\ ~canAvoidDowntime
    /\ pc = "returned"
    /\ err = "nil"
    /\ Cardinality(ScaleToZeroCalls) = 2
    /\ CallsOf("deployMachinesApp") # {}

-----------------------------------------------------------------------------
(* C32 *)

\* The per-group counts of the snapshot, counted from the snapshot itself.
SnapshotCounts ==
    {<<g, Cardinality({i \in DOMAIN oldAllocs : oldAllocs[i].task = g})>> :
        g \in {oldAllocs[i].task : i \in DOMAIN oldAllocs}}

\* Every machine launched is the one planned for the allocation of the
\* snapshot at its position, and every restore of rollback asks for the
\* snapshot's counts.
PlanFollowed ==
    /\ \A i \in CallsOf("launch") :
          /\ calls[i].id \in DOMAIN oldAllocs
          /\ calls[i].val = oldAllocs[calls[i].id].task
    /\ \A i \in RollbackCallsOf("setVMCount") :
          calls[i].counts = SnapshotCounts

\* C32: no step of Migrate or of rollback changes newMachinesInput, oldAllocs
\* or oldVmCounts, and when the legacy fleet changes after construction the
\* machines created and the counts rollback restores are still those of the
\* snapshot.
C32_PlanFrozen ==
    /\ [][UNCHANGED <<newMachinesInput, oldAllocs, oldVmCounts>>]_vars
    /\ []PlanFollowed

C32_Witness ==
    /\ liveFleet.changed
    /\ liveFleet.beforeLaunch
    /\ Len(oldAllocs) = 1
    /\ OkCallsOf("launch") # {}
    /\ RollbackCallsOf("setVMCount") # {}

-----------------------------------------------------------------------------
(* C33 *)

\* Migrator p is between Locked and Unlocked: at one of the steps Migrate
\* takes after the lock was granted and before the unlock has returned.
BetweenLockedAndUnlocked(p) ==
    migrators.pc[p] \in {"detach", "release", "create", "acquire", "unlock"}

\* The calls of the steps between Locked and Unlocked.
SectionOps == {"detach", "createRelease", "launch", "acquireLease"}

SectionCallsOf(p) ==
    {i \in DOMAIN migrators.log :
        migrators.log[i].by = p /\ migrators.log[i].op \in SectionOps}

\* C33: with two migrators on one application and a lock the control plane
\* grants to one holder at a time, the two are never both between Locked
\* and Unlocked, and no detach, release-registration, machine-creation or
\* lease-acquisition call of one falls between two such calls of the other.
C33_SectionsExclusive ==
    /\ ~(BetweenLockedAndUnlocked(1) /\ BetweenLockedAndUnlocked(2))
    /\ \A p \in Migrators, q \in Migrators :
          p # q =>
             \A i \in SectionCallsOf(p), k \in SectionCallsOf(p),
                j \in SectionCallsOf(q) : ~(i < j /\ j < k)

\* Migrator 2 asked for the lock between two section calls of migrator 1 and
\* was refused; migrator 1 went on to its lease.
C33_Witness ==
    /\ \E i \in SectionCallsOf(1) : migrators.log[i].op = "acquireLease"
    /\ \E i \in SectionCallsOf(1), k \in SectionCallsOf(1),
          j \in DOMAIN migrators.log :
          /\ i < j /\ j < k
          /\ migrators.log[j] = DuoCall(2, "lockApp", FALSE)

-----------------------------------------------------------------------------
(* C34 *)

\* Migrate was invoked: the run has left the position before its first step.
MigrateInvoked == pc # "notStarted"

\* C34: when --yes is not given and the operator declines, or the prompt
\* fails, Migrate is never invoked and no remote call of Migrate or rollback
\* is issued; when --yes is given the prompt is skipped and Migrate is
\* invoked.
C34_ConfirmGatesMigrate ==
    /\ ctor.confirm \in {"no", "error"} => ~MigrateInvoked /\ calls = <<>>
    /\ ctor.confirm = "skipped" => MigrateInvoked
    /\ MigrateInvoked => ctor.confirm \in {"skipped", "yes"}

C34_Witness ==
    /\ ctor.result = "migrator"
    /\ ctor.confirm \in {"no", "error"}
    /\ ctor.pc = "done"
    /\ Len(oldAllocs) > 0

-----------------------------------------------------------------------------
(* C35 *)

\* updateAppPlatformVersion("machines") has succeeded.
Switched ==
    \E i \in OkCallsOf("setPlatformVersion") :
        calls[i].by = "migrate" /\ calls[i].val = "machines"

\* The abort flag was set after the switch had succeeded.
AbortSetAfterSwitch ==
    /\ Switched
    /\ abortSetAt \in {"write", "defer_release", "defer_recovery"}

\* C35: rollback is never invoked once the platform marker has been switched
\* to "machines"; onlyPromptToConfigSave is set only where the last marker
\* written is "machines", the legacy scale-to-zero has completed and the
\* application lock is not held; an abort flag set after the switch is never
\* seen, and the outcome is that of writing the config file.
C35_PointOfNoReturn ==
    /\ Switched => rollbackRuns = 0 /\ RollbackCalls = {}
    /\ recovery.onlyPromptToConfigSave =>
          /\ Switched
          /\ LastMarkerWritten = "machines"
          /\ cpPlatform = "machines"
          /\ recovery.scaledToZero
          /\ OkCallsOf("waitForAllocsZero") # {}
          /\ ~recovery.appLocked
          /\ ~cpLocked
    /\ AbortSetAfterSwitch =>
          /\ err # "aborted"
          /\ abortSeenAt = "none"
          /\ Returned =>
                \E i \in CallsOf("writeToDisk") :
                    err = IF calls[i].ok THEN "nil" ELSE "error"

C35_Witness ==
    /\ Returned
    /\ AbortSetAfterSwitch
    /\ recovery.onlyPromptToConfigSave
    /\ err = "error"
    /\ rollbackRuns = 0
    /\ Len(oldAllocs) > 0

-----------------------------------------------------------------------------
(* C36 *)

\* Positions in the log of the remote waits that failed.
FailedWaits ==
    {i \in DOMAIN machineWait.log : machineWait.log[i].outcome # "reached"}

\* A failed wait after which the function gives up: the answer was an HTTP
\* 400, or the context was found cancelled or past its deadline.
FinalFailure(i) ==
    \/ machineWait.log[i].outcome = "badRequest"
    \/ machineWait.log[i].ctxErr # "none"

\* C36: WaitForStartOrStop answers an action other than "start" or "stop"
\* with an error and issues no remote wait for it; otherwise it returns nil
\* only when its last remote wait reported the state asked for; after a wait
\* that failed with HTTP 400, or after which the deadline or a cancellation
\* is seen, it returns an error and issues no further wait; after any other
\* failed wait it sleeps for the backoff's duration and waits again.
C36_WaitForStartOrStop ==
    /\ machineWait.pc # "idle" /\ machineWait.action \notin {"start", "stop"} =>
          /\ machineWait.pc = "done"
          /\ machineWait.result = "error"
          /\ machineWait.log = <<>>
    /\ machineWait.result = "nil" =>
          /\ machineWait.pc = "done"
          /\ machineWait.log # <<>>
          /\ LET last == machineWait.log[Len(machineWait.log)]
             IN  /\ last.outcome = "reached"
                 /\ last.state = IF machineWait.action = "start"
                                 THEN "started" ELSE "stopped"
    /\ \A i \in FailedWaits :
          IF FinalFailure(i)
          THEN /\ i = Len(machineWait.log)
               /\ machineWait.pc = "done"
               /\ machineWait.result = "error"
          ELSE \/ /\ i = Len(machineWait.log)
                  /\ machineWait.pc \in {"sleep", "loop"}
                  /\ machineWait.result = "none"
                  /\ machineWait.pc = "loop" =>
                        machineWait.now >=
                            machineWait.log[i].end + StartStopBackoffMin
               \/ /\ i < Len(machineWait.log)
                  /\ machineWait.log[i + 1].at >=
                        machineWait.log[i].end + StartStopBackoffMin

\* A wait failed for another reason, the function slept and waited again,
\* and the second wait's HTTP 400 ended it.
C36_Witness ==
    /\ machineWait.pc = "done"
    /\ machineWait.result = "error"
    /\ Len(machineWait.log) = 2
    /\ machineWait.log[1].outcome = "failed"
    /\ machineWait.log[2].outcome = "badRequest"
    /\ machineWait.log[2].ctxErr = "none"

-----------------------------------------------------------------------------
(* C37 *)

\* Done: nil returned after the config file was written.
OutcomeDone ==
    /\ err = "nil"
    /\ OkCallsOf("writeToDisk") # {}
    /\ rollbackRuns = 0

\* An error returned after rollback was run once.
OutcomeRolledBack ==
    /\ err # "nil"
    /\ rollbackRuns = 1
    /\ ~recovery.onlyPromptToConfigSave

\* An error returned past the point of no return, rollback not run.
OutcomeNotSaved ==
    /\ err # "nil"
    /\ rollbackRuns = 0
    /\ RollbackCalls = {}
    /\ recovery.onlyPromptToConfigSave

ExactlyOneOutcome ==
    Cardinality({o \in {"done", "rolledBack", "notSaved"} :
                    \/ o = "done" /\ OutcomeDone
                    \/ o = "rolledBack" /\ OutcomeRolledBack
                    \/ o = "notSaved" /\ OutcomeNotSaved}) = 1

\* C37: when every remote call returns, every run of Migrate terminates, and
\* it ends in exactly one of three outcomes: nil with the config file
\* written, an error after one run of rollback, an error past the point of no
\* return without rollback.
C37_TerminatesInOneOutcome ==
    /\ <>Returned
    /\ [](Returned => ExactlyOneOutcome)

C37_Witness ==
    /\ Returned
    /\ OutcomeRolledBack
    /\ err = "aborted"
    /\ rbErr = "error"
    /\ Len(recovery.machinesCreated) > 0

=============================================================================
